---- MODULE Spec2Model ----
(***************************************************************************)
(* Model of the K-line range cache (src/src/lib/kline-cache.ts,            *)
(* class KlineCacheService) of future-web: the cache map, the in-flight    *)
(* request map, the backend fetches that are outstanding, extendTimeRange  *)
(* calls waiting for their segments, the refresh and cleanup timers and    *)
(* the offline gate.                                                       *)
(*                                                                         *)
(* Instants are integers in milliseconds.  A time STRING is a record       *)
(* [fmt, v]: fmt = "iso" is the full ISO string of instant v               *)
(* (Date.toISOString), fmt = "hour" is the prefix "YYYY-MM-DDTHH" of an    *)
(* ISO string, v being the number of whole hours: this is what             *)
(* key.split(":")[4] yields, because an ISO time string itself contains    *)
(* two colons.  A bar is identified by its open time.                      *)
(***************************************************************************)
EXTENDS Integers, Sequences, FiniteSets, TLC

VARIABLES
    now,              \* Date.now()
    cache,            \* Map<string, CacheEntry> in insertion order
    inflightRequests, \* Map<string, Promise>: set of [key, fid]
    fetches,          \* backend listKlines calls that have not settled
    nFetch,           \* number of backend listKlines calls made so far
    extCalls,         \* extendTimeRange calls suspended at Promise.all
    runs,             \* refreshLatestData runs suspended in a batch
    loads,            \* preloadKlines and warmupCache calls awaiting a batch
    offlineMode,      \* the offline gate
    cleanupInterval,  \* handle of the cleanup timer is non-null
    refreshInterval,  \* handle of the refresh timer is non-null
    cleanupTimers,    \* number of live cleanup setInterval timers
    refreshTimers,    \* number of live refresh setInterval timers
    cleanupDue,       \* cleanup periods elapsed and not yet fired
    refreshDue,       \* refresh periods elapsed and not yet fired
    lenientDate,      \* whether the engine's Date parses "YYYY-MM-DDTHH"
    nOps,             \* number of getKlines and extendTimeRange calls so far
    nAdmin,           \* number of clearCache, destroy, setOfflineMode calls
    nFail,            \* number of backend calls that failed so far
    lastOp,           \* what the last step did (observation only)
    allTrades,        \* the rounds the stop-loss dialog analyses
    analysis,         \* the analysis the dialog has computed
    posted,           \* the result the stop-loss worker has posted
    held,             \* the entries a limitCacheSize call finds in the map
    evicted           \* the entries that call has deleted

\* the variables of the cache service and those of the stop-loss analysis
svcVars == <<now, cache, inflightRequests, fetches, nFetch, extCalls,
             runs, loads, offlineMode, cleanupInterval, refreshInterval,
             cleanupTimers, refreshTimers, cleanupDue, refreshDue,
             lenientDate, nOps, nAdmin, nFail, lastOp>>

simVars == <<allTrades, analysis, posted, held, evicted>>

vars == <<svcVars, simVars>>

----------------------------------------------------------------------------
(* Program constants *)

SECOND == 1000
MINUTE == 60 * SECOND
HOUR == 60 * MINUTE
CACHE_TTL_1M == 5 * 60 * 1000
CACHE_TTL_OTHER == 30 * 60 * 1000
CLEANUP_PERIOD == 5 * 60 * 1000
REFRESH_PERIOD == 2 * 60 * 1000
REFRESH_WINDOW == 60 * 60 * 1000
BYTES_PER_POINT == 200
MEMORY_LIMIT_MB == 100

(* Bounds of the model.  MAX_CACHE_ENTRIES is 1000 in the source; the      *)
(* model scales it down so that the count bound is actually exceeded.      *)
MAX_CACHE_ENTRIES == 1
MaxFetches == 2
MaxOps == 3
MaxAdmin == 1
MaxFailures == 1
MaxClockSteps == 3
RefreshesPerStep == 1
\* batchSize of preloadKlines (10 in the source) and of warmupCache (15 in
\* the source), scaled down so that a call has more tasks than one batch
PRELOAD_BATCH_SIZE == 1
WARMUP_BATCH_SIZE == 1
\* maxConcurrent of refreshLatestData (5 in the source), scaled down so that
\* a refresh run of two entries takes two batches
MAX_CONCURRENT_REFRESH == 1
\* setOfflineMode and destroy calls in the behaviours that follow the timers
MaxToggles == 3

----------------------------------------------------------------------------
(* Inputs *)

P0 == 1 * HOUR
P1 == 1 * HOUR + 30 * MINUTE
P2 == 2 * HOUR
T0 == 2 * HOUR

Intervals == {"1m", "1h"}

\* <<interval, start, end>> the application passes to getKlines and to
\* extendTimeRange
GetInputs ==
    {<<"1m", P0, P1>>, <<"1m", P0, P2>>, <<"1m", P1, P2>>, <<"1h", P0, P2>>}

ExtendInputs ==
    {<<"1m", P0, P1>>, <<"1m", P0, P2>>, <<"1h", P0, P2>>}

\* the parameters the application passes to preloadKlines
PreloadInputs ==
    {[symbols |-> <<"ETHUSDC">>, intervals |-> <<"1m", "1h">>,
      startTime |-> P0, endTime |-> P2],
     [symbols |-> <<"ETHUSDC">>, intervals |-> <<"1m">>,
      startTime |-> P0, endTime |-> P1]}

\* the trades and intervals the application passes to warmupCache
WarmupInputs ==
    {[trades |-> <<[symbol |-> "ETHUSDC", openTime |-> P1, closeTime |-> P2],
                   [symbol |-> "ETHUSDC", openTime |-> P0, closeTime |-> P1]>>,
      intervals |-> <<"1m", "1h">>],
     [trades |-> <<[symbol |-> "ETHUSDC", openTime |-> P0, closeTime |-> P1]>>,
      intervals |-> <<"1m">>]}

\* the rounds the application passes to getKlinesForRound: the trades it
\* has warmed the cache with, without an interval ("") or with "1h"
RoundInputs ==
    {[openTime |-> t.openTime, closeTime |-> t.closeTime, interval |-> i] :
       t \in {[openTime |-> P1, closeTime |-> P2],
              [openTime |-> P0, closeTime |-> P1]},
       i \in {"", "1h"}}

SeriesOf(interval) == <<"binance", "futures", "ETHUSDC", interval>>

\* open times of the bars the backend holds
BackendOpenTimes(interval) ==
    IF interval = "1m"
    THEN {P0 + k * 15 * MINUTE : k \in 0..8}
    ELSE {P0 + k * HOUR : k \in 0..2}

----------------------------------------------------------------------------
(* Date *)

NaN == -1

ToISOString(t) == [fmt |-> "iso", v |-> t]

DateParse(ts) ==
    IF ts.fmt = "iso" THEN ts.v
    ELSE IF lenientDate THEN ts.v * HOUR ELSE NaN

\* a <= b and a >= b on two time strings of the same format, for which
\* the order of the strings is the order of the instants
StrLe(a, b) == a.v <= b.v
StrGe(a, b) == a.v >= b.v

\* comparisons of numbers one of which may be NaN
Lt(a, b) == a # NaN /\ b # NaN /\ a < b
Le(a, b) == a # NaN /\ b # NaN /\ a <= b
Gt(a, b) == Lt(b, a)
Ge(a, b) == Le(b, a)

\* the pieces of a time string between its colons
TimeParts(ts) ==
    IF ts.fmt = "iso"
    THEN << ts.v \div HOUR, (ts.v % HOUR) \div MINUTE, ts.v % MINUTE >>
    ELSE << ts.v >>

----------------------------------------------------------------------------
(* Sequences *)

RECURSIVE InsertSorted(_, _)
InsertSorted(x, s) ==
    IF s = <<>> THEN <<x>>
    ELSE IF x < Head(s) THEN <<x>> \o s
    ELSE <<Head(s)>> \o InsertSorted(x, Tail(s))

SortAsc_Unsorted(s) == s

\* stable ascending sort: an element goes after the equal ones before it
RECURSIVE SortAsc(_)
SortAsc(s) ==
    IF s = <<>> THEN <<>>
    ELSE InsertSorted(s[Len(s)], SortAsc(SubSeq(s, 1, Len(s) - 1)))

RECURSIVE SetToSortedSeq(_)
SetToSortedSeq(S) ==
    IF S = {} THEN <<>>
    ELSE LET m == CHOOSE x \in S : \A y \in S : x <= y
         IN <<m>> \o SetToSortedSeq(S \ {m})

DedupAdjacent_KeepsAll(s) == s

\* arr.filter((item, index) => index === 0 || item !== arr[index - 1])
DedupAdjacent(s) ==
    LET keep == {i \in 1..Len(s) : i = 1 \/ s[i] # s[i - 1]}
        RECURSIVE Build(_)
        Build(i) ==
            IF i > Len(s) THEN <<>>
            ELSE (IF i \in keep THEN <<s[i]>> ELSE <<>>) \o Build(i + 1)
    IN Build(1)

FilterRange_OpenEnd(data, lo, hi) ==
    SelectSeq(data, LAMBDA k : Ge(k, lo) /\ Lt(k, hi))

FilterRange(data, lo, hi) ==
    SelectSeq(data, LAMBDA k : Ge(k, lo) /\ Le(k, hi))

\* Array.prototype.reverse
Reverse(s) == [i \in 1..Len(s) |-> s[Len(s) + 1 - i]]

Ordered_AsFetched(order, data) == data

\* params.order === "desc" ? [...data].reverse() : data
Ordered(order, data) == IF order = "desc" THEN Reverse(data) ELSE data

RECURSIVE FlatSeq(_)
FlatSeq(ss) ==
    IF ss = <<>> THEN <<>> ELSE Head(ss) \o FlatSeq(Tail(ss))

----------------------------------------------------------------------------
(* Cache keys and entries *)

\* the key string, as the list of its pieces between colons
GenerateCacheKey(series, startTime, endTime) ==
    series \o TimeParts(startTime) \o TimeParts(endTime)

\* key.split(":")[i]
KeyPart(key, i) == key[i + 1]

Ttl(interval) == IF interval = "1m" THEN CACHE_TTL_1M ELSE CACHE_TTL_OTHER

IsCacheValid_OffByOne(entry, interval) ==
    now - entry.cachedAt <= Ttl(interval)

IsCacheValid(entry, interval) ==
    now - entry.cachedAt < Ttl(interval)

SeriesMatches(key, series) ==
    /\ KeyPart(key, 0) = series[1]
    /\ KeyPart(key, 1) = series[2]
    /\ KeyPart(key, 2) = series[3]
    /\ KeyPart(key, 3) = series[4]

RemoveAt(c, del) ==
    LET RECURSIVE Build(_)
        Build(i) ==
            IF i > Len(c) THEN <<>>
            ELSE (IF i \in del THEN <<>> ELSE <<c[i]>>) \o Build(i + 1)
    IN Build(1)

\* Map.set: a new key goes last, an existing key keeps its place
CacheSet(c, key, entry) ==
    IF \E i \in 1..Len(c) : c[i].key = key
    THEN [i \in 1..Len(c) |-> IF c[i].key = key THEN entry ELSE c[i]]
    ELSE Append(c, entry)

CleanExpiredCache_AtTtl(c) ==
    RemoveAt(c, {i \in 1..Len(c) :
                    now - c[i].cachedAt >= Ttl(KeyPart(c[i].key, 3))})

CleanExpiredCache(c) ==
    RemoveAt(c, {i \in 1..Len(c) :
                    now - c[i].cachedAt > Ttl(KeyPart(c[i].key, 3))})

Priority_NoExpiredBonus(e) ==
    Len(e.data) * 60 + (now - e.cachedAt)

\* the priority score times 60000, so that it stays an integer
Priority(e) ==
    LET isExpired == now - e.cachedAt > Ttl(KeyPart(e.key, 3))
    IN (IF isExpired THEN 1000 * MINUTE ELSE 0)
       + Len(e.data) * 60
       + (now - e.cachedAt)

\* the indices limitCacheSize deletes: the first (size - limit) of the
\* entries sorted by descending priority (Array.sort is stable)
ToDelete(c, limit) ==
    LET Before(i, j) == \/ Priority(c[i]) > Priority(c[j])
                        \/ Priority(c[i]) = Priority(c[j]) /\ i < j
    IN {i \in 1..Len(c) :
          Cardinality({j \in 1..Len(c) : Before(j, i)}) < Len(c) - limit}

LimitCacheSize_OneTooMany(c, limit) ==
    IF Len(c) <= limit THEN c
    ELSE RemoveAt(c, ToDelete(c, limit - 1))

LimitCacheSize_KeepsOneMore(c, limit) ==
    IF Len(c) <= limit + 1 THEN c
    ELSE RemoveAt(c, ToDelete(c, limit + 1))

LimitCacheSize(c, limit) ==
    IF Len(c) <= limit THEN c
    ELSE RemoveAt(c, ToDelete(c, limit))

RECURSIVE SumLen(_)
SumLen(c) == IF c = <<>> THEN 0 ELSE Len(Head(c).data) + SumLen(Tail(c))

\* memoryUsageEstimate in hundredths of a MB, as toFixed(2) rounds it:
\* points * 200 / 1024 / 1024 * 100 = points * 625 / 32768
GetCacheStats(c) ==
    [totalEntries |-> Len(c),
     totalDataPoints |-> SumLen(c),
     memoryHundredths |-> (SumLen(c) * 625 + 16384) \div 32768]

\* checkMemoryUsage on the map c with MAX_CACHE_ENTRIES = limit: the map and
\* the value of MAX_CACHE_ENTRIES it leaves
CheckMemoryUsageFrom(c, limit) ==
    IF GetCacheStats(c).memoryHundredths > MEMORY_LIMIT_MB * 100
    THEN LET originalLimit == limit
             lowered == (originalLimit * 7) \div 10
         IN [cache |-> CleanExpiredCache(LimitCacheSize(c, lowered)),
             limit |-> originalLimit]
    ELSE [cache |-> c, limit |-> limit]

CheckMemoryUsage(c) == CheckMemoryUsageFrom(c, MAX_CACHE_ENTRIES).cache

\* index of the first entry findCachedData returns from, or 0
FindCachedIndex_StrictStart(c, series, startTime, endTime) ==
    LET requestStart == DateParse(startTime)
        requestEnd == DateParse(endTime)
        ok == {i \in 1..Len(c) :
                 /\ IsCacheValid(c[i], series[4])
                 /\ SeriesMatches(c[i].key, series)
                 /\ Lt(DateParse(c[i].startTime), requestStart)
                 /\ Ge(DateParse(c[i].endTime), requestEnd)}
    IN IF ok = {} THEN 0 ELSE CHOOSE i \in ok : \A j \in ok : i <= j

FindCachedIndex(c, series, startTime, endTime) ==
    LET requestStart == DateParse(startTime)
        requestEnd == DateParse(endTime)
        ok == {i \in 1..Len(c) :
                 /\ IsCacheValid(c[i], series[4])
                 /\ SeriesMatches(c[i].key, series)
                 /\ Le(DateParse(c[i].startTime), requestStart)
                 /\ Ge(DateParse(c[i].endTime), requestEnd)}
    IN IF ok = {} THEN 0 ELSE CHOOSE i \in ok : \A j \in ok : i <= j

FindCachedData(c, series, startTime, endTime) ==
    LET i == FindCachedIndex(c, series, startTime, endTime)
    IN IF i = 0 THEN [found |-> FALSE, data |-> <<>>, used |-> {}]
       ELSE [found |-> TRUE,
             data |-> FilterRange(c[i].data, DateParse(startTime),
                                  DateParse(endTime)),
             used |-> {c[i]}]

----------------------------------------------------------------------------
(* Backend *)

\* what listKlines answers when it succeeds: the bars that exist at the
\* time of the answer, in [startTime, endTime], ascending
BackendBars(series, startTime, endTime) ==
    SetToSortedSeq({k \in BackendOpenTimes(series[4]) :
                      /\ k <= now
                      /\ Ge(k, DateParse(startTime))
                      /\ Le(k, DateParse(endTime))})

----------------------------------------------------------------------------
(* The asynchronous operations.  They are written as functions of a record *)
(* st holding the mutable state of the service (cache, inflight, fetches,  *)
(* nFetch, extCalls, runs) and a log of what the current step has done     *)
(* (issued, delivered, used, invoked).  Promise reactions run in the same  *)
(* task as the event that settles the promise, so a step is: one call by   *)
(* the application or one timer tick up to the point where everything it   *)
(* started is suspended on a backend fetch, or one backend fetch settling  *)
(* together with every continuation this releases.                         *)

Cur ==
    [cache |-> cache, inflight |-> inflightRequests, fetches |-> fetches,
     nFetch |-> nFetch, extCalls |-> extCalls, runs |-> runs,
     loads |-> loads, issued |-> {}, delivered |-> {}, used |-> {}, invoked |-> <<>>]

\* offline read: the bars of every valid entry of the series that overlaps
\* [startTime, endTime], restricted to the overlap, sorted by open time
OfflineOverlap(c, series, startTime, endTime) ==
    LET requestStart == DateParse(startTime)
        requestEnd == DateParse(endTime)
        hit == {i \in 1..Len(c) :
                  /\ IsCacheValid(c[i], series[4])
                  /\ SeriesMatches(c[i].key, series)
                  /\ Ge(DateParse(c[i].endTime), requestStart)
                  /\ Le(DateParse(c[i].startTime), requestEnd)}
        parts == [i \in 1..Len(c) |->
                    IF i \in hit
                    THEN FilterRange(c[i].data, requestStart, requestEnd)
                    ELSE <<>>]
    IN [data |-> SortAsc(FlatSeq(parts)), used |-> {c[i] : i \in hit}]

\* getKlines up to its return or its first await.  path tells which:
\* "hit" (served by findCachedData), "offline", "wait" (awaits the fetch
\* fid found in inflightRequests) or "fetch" (issued the fetch fid)
GetKlinesSync_IgnoresOffline(st, series, startTime, endTime) ==
    LET key == GenerateCacheKey(series, startTime, endTime)
        cached == FindCachedData(st.cache, series, startTime, endTime)
        same == {r \in st.inflight : r.key = key}
        fid == st.nFetch + 1
        f == [fid |-> fid, key |-> key, series |-> series,
              startTime |-> startTime, endTime |-> endTime, callers |-> 0,
              desc |-> 0]
    IN IF cached.found
       THEN [st |-> [st EXCEPT !.used = @ \cup cached.used],
             path |-> "hit", data |-> cached.data, fid |-> 0]
       ELSE IF same # {}
       THEN [st |-> st, path |-> "wait", data |-> <<>>,
             fid |-> (CHOOSE r \in same : TRUE).fid]
       ELSE [st |-> [st EXCEPT !.nFetch = fid,
                               !.fetches = @ \cup {f},
                               !.inflight = @ \cup {[key |-> key, fid |-> fid]},
                               !.issued = @ \cup {f}],
             path |-> "fetch", data |-> <<>>, fid |-> fid]

GetKlinesSync(st, series, startTime, endTime) ==
    LET key == GenerateCacheKey(series, startTime, endTime)
        cached == FindCachedData(st.cache, series, startTime, endTime)
        same == {r \in st.inflight : r.key = key}
        fid == st.nFetch + 1
        f == [fid |-> fid, key |-> key, series |-> series,
              startTime |-> startTime, endTime |-> endTime, callers |-> 0,
              desc |-> 0]
    IN IF cached.found
       THEN [st |-> [st EXCEPT !.used = @ \cup cached.used],
             path |-> "hit", data |-> cached.data, fid |-> 0]
       ELSE IF offlineMode
       THEN LET o == OfflineOverlap(st.cache, series, startTime, endTime)
            IN [st |-> [st EXCEPT !.used = @ \cup o.used],
                path |-> "offline", data |-> o.data, fid |-> 0]
       ELSE IF same # {}
       THEN [st |-> st, path |-> "wait", data |-> <<>>,
             fid |-> (CHOOSE r \in same : TRUE).fid]
       ELSE [st |-> [st EXCEPT !.nFetch = fid,
                               !.fetches = @ \cup {f},
                               !.inflight = @ \cup {[key |-> key, fid |-> fid]},
                               !.issued = @ \cup {f}],
             path |-> "fetch", data |-> <<>>, fid |-> fid]

\* one more caller of the application awaits the fetch fid
AddCaller(st, fid) ==
    [st EXCEPT !.fetches =
        {IF f.fid = fid THEN [f EXCEPT !.callers = @ + 1] ELSE f : f \in @}]

\* one more caller of the application awaits the fetch fid and has asked
\* for order "desc"
AddDescCaller(st, fid) ==
    [st EXCEPT !.fetches =
        {IF f.fid = fid THEN [f EXCEPT !.desc = @ + 1] ELSE f : f \in @}]

NextCid(st) ==
    IF st.extCalls = {} THEN 1
    ELSE 1 + (CHOOSE m \in {c.cid : c \in st.extCalls} :
                 \A c \in st.extCalls : c.cid <= m)

NextRid(st) ==
    IF st.runs = {} THEN 1
    ELSE 1 + (CHOOSE m \in {r.rid : r \in st.runs} :
                 \A r \in st.runs : r.rid <= m)

\* index of the entry extendTimeRange takes as the existing one, or 0
FindOverlapIndex(c, series, newStart, newEnd) ==
    LET ok == {i \in 1..Len(c) :
                 /\ IsCacheValid(c[i], series[4])
                 /\ SeriesMatches(c[i].key, series)
                 /\ Ge(DateParse(c[i].endTime), newStart)
                 /\ Le(DateParse(c[i].startTime), newEnd)}
    IN IF ok = {} THEN 0 ELSE CHOOSE i \in ok : \A j \in ok : i <= j

\* the ends of the two segments extendTimeRange asks getKlines for
HeadEnd(existingStart) == ToISOString(existingStart - 1)

TailStart_Inclusive(existingEnd) == ToISOString(existingEnd)

TailStart(existingEnd) == ToISOString(existingEnd + 1)

\* the entry extendTimeRange goes on with: the one at index i0 of the
\* cache, or none (existingData = [], existingStart = newStart,
\* existingEnd = newEnd)
Existing(c, i0, newStart, newEnd) ==
    IF i0 # 0
    THEN [found |-> TRUE, entry |-> {c[i0]}, data |-> c[i0].data,
          start |-> DateParse(c[i0].startTime),
          end |-> DateParse(c[i0].endTime)]
    ELSE [found |-> FALSE, entry |-> {}, data |-> <<>>,
          start |-> newStart, end |-> newEnd]

\* a segment extendTimeRange does not ask for
NoRequest(st) == [st |-> st, path |-> "none", data |-> <<>>, fid |-> 0]

\* requests.push(this.getKlines(...)): the request as it is logged and as
\* Promise.all holds it; r is what getKlines did
Requested(startTime, endTime, r) ==
    IF r.path = "none" THEN <<>>
    ELSE <<[startTime |-> startTime, endTime |-> endTime,
            path |-> r.path, fid |-> r.fid]>>

Segment(r) ==
    IF r.path = "none" THEN <<>> ELSE <<[fid |-> r.fid, data |-> r.data]>>

\* extendTimeRange from "if (requests.length === 0)" on: it returns the
\* bars of the existing entry, or is suspended at Promise.all
ExtendAwait(st, series, newStartTime, newEndTime, rid, ex, reqs, segs) ==
    LET inv == [series |-> series, newStartTime |-> newStartTime,
                newEndTime |-> newEndTime, rid |-> rid, found |-> ex.found,
                existingStart |-> ex.start, existingEnd |-> ex.end,
                reqs |-> reqs]
    IN IF reqs = <<>>
       THEN [st EXCEPT
               !.invoked = Append(@, inv),
               !.delivered =
                   @ \cup (IF rid = 0
                           THEN {[to |-> "extendTimeRange", n |-> 1,
                                  status |-> "ok",
                                  data |-> FilterRange(ex.data,
                                               DateParse(newStartTime),
                                               DateParse(newEndTime)),
                                  id |-> 0]}
                           ELSE {})]
       ELSE [st EXCEPT
               !.invoked = Append(@, inv),
               !.extCalls =
                   @ \cup {[cid |-> NextCid(st), series |-> series,
                            newStartTime |-> newStartTime,
                            newEndTime |-> newEndTime,
                            existingData |-> ex.data, segs |-> segs,
                            rid |-> rid]}]

\* both segments have been looked at: h and t are what getKlines did for
\* the head and for the tail
ExtendRequests(series, newStartTime, newEndTime, rid, ex, h, t) ==
    ExtendAwait(t.st, series, newStartTime, newEndTime, rid, ex,
                Requested(newStartTime, HeadEnd(ex.start), h)
                \o Requested(TailStart(ex.end), newEndTime, t),
                Segment(h) \o Segment(t))

\* "if (newEnd > existingEnd)": the tail request
ExtendTail(series, newStartTime, newEndTime, rid, ex, h) ==
    ExtendRequests(series, newStartTime, newEndTime, rid, ex, h,
        IF ~offlineMode /\ Gt(DateParse(newEndTime), ex.end)
        THEN GetKlinesSync(h.st, series, TailStart(ex.end), newEndTime)
        ELSE NoRequest(h.st))

\* "if (newStart < existingStart)": the head request
ExtendHead(st, series, newStartTime, newEndTime, rid, ex) ==
    ExtendTail(series, newStartTime, newEndTime, rid, ex,
        IF ~offlineMode /\ Lt(DateParse(newStartTime), ex.start)
        THEN GetKlinesSync([st EXCEPT !.used = @ \cup ex.entry], series,
                           newStartTime, HeadEnd(ex.start))
        ELSE NoRequest([st EXCEPT !.used = @ \cup ex.entry]))

\* extendTimeRange up to its return or to its await of Promise.all.
\* rid is the refresh run that made the call, 0 for the application.
ExtendSync(st, series, newStartTime, newEndTime, rid) ==
    ExtendHead(st, series, newStartTime, newEndTime, rid,
        Existing(st.cache,
                 FindOverlapIndex(st.cache, series, DateParse(newStartTime),
                                  DateParse(newEndTime)),
                 DateParse(newStartTime), DateParse(newEndTime)))

\* the continuation of extendTimeRange after Promise.all has resolved
FinishCall(st, call) ==
    LET newStart == DateParse(call.newStartTime)
        newEnd == DateParse(call.newEndTime)
        newData == FlatSeq([i \in 1..Len(call.segs) |-> call.segs[i].data])
        allData == SortAsc(call.existingData \o newData)
        uniqueData == DedupAdjacent(allData)
        cacheKey == GenerateCacheKey(call.series, call.newStartTime,
                                     call.newEndTime)
        entry == [key |-> cacheKey, data |-> uniqueData, cachedAt |-> now,
                  startTime |-> call.newStartTime,
                  endTime |-> call.newEndTime]
        result == FilterRange(uniqueData, newStart, newEnd)
    IN [st EXCEPT
          !.cache = CacheSet(@, cacheKey, entry),
          !.extCalls = @ \ {call},
          !.delivered =
              @ \cup (IF call.rid = 0
                      THEN {[to |-> "extendTimeRange", n |-> 1,
                             status |-> "ok", data |-> result,
                             id |-> call.cid]}
                      ELSE {})]

\* Promise.all has rejected: extendTimeRange throws; a refresh run
\* catches and logs, the application sees the rejection
RejectCall(st, call) ==
    [st EXCEPT
       !.extCalls = @ \ {call},
       !.delivered =
           @ \cup (IF call.rid = 0
                   THEN {[to |-> "extendTimeRange", n |-> 1,
                          status |-> "rejected", data |-> <<>>,
                          id |-> call.cid]}
                   ELSE {})]

\* the entries refreshLatestData selects, as the parameters it rebuilds
\* from the pieces of their keys
ToRefresh(c) ==
    LET sel == {i \in 1..Len(c) :
                  /\ KeyPart(c[i].key, 3) = "1m"
                  /\ Gt(DateParse(c[i].endTime), now - REFRESH_WINDOW)}
    IN [j \in 1..Cardinality(sel) |->
          LET i == CHOOSE i \in sel :
                      Cardinality({k \in sel : k < i}) = j - 1
          IN [key |-> c[i].key,
              series |-> <<KeyPart(c[i].key, 0), KeyPart(c[i].key, 1),
                           KeyPart(c[i].key, 2), KeyPart(c[i].key, 3)>>,
              startTime |-> [fmt |-> "hour", v |-> KeyPart(c[i].key, 4)],
              entryStart |-> c[i].startTime,
              entryEnd |-> c[i].endTime]]

\* batch.map(...): the calls of one batch are started one after the other
RECURSIVE StartBatch(_, _, _)
StartBatch(st, items, rid) ==
    IF items = <<>> THEN st
    ELSE StartBatch(ExtendSync(st, Head(items).series, Head(items).startTime,
                               ToISOString(now), rid),
                    Tail(items), rid)

\* a refresh run none of whose calls is pending goes on to its next batch,
\* or ends
StepRun(st, run) ==
    LET n == IF Len(run.queue) < MAX_CONCURRENT_REFRESH
             THEN Len(run.queue) ELSE MAX_CONCURRENT_REFRESH
        batch == SubSeq(run.queue, 1, n)
        rest == SubSeq(run.queue, n + 1, Len(run.queue))
    IN IF run.queue = <<>>
       THEN [st EXCEPT !.runs = @ \ {run}]
       ELSE StartBatch([st EXCEPT !.runs = (@ \ {run})
                                      \cup {[run EXCEPT !.queue = rest]}],
                       batch, run.rid)

\* run every continuation that is ready: extendTimeRange calls all of whose
\* requests have resolved (in the order the calls were made), then refresh
\* runs whose batch is over
RECURSIVE Drain(_)
Drain(st) ==
    LET complete == {c \in st.extCalls :
                       \A i \in 1..Len(c.segs) : c.segs[i].fid = 0}
        idle == {r \in st.runs : ~ \E c \in st.extCalls : c.rid = r.rid}
    IN IF complete # {}
       THEN Drain(FinishCall(st,
                CHOOSE c \in complete : \A d \in complete : c.cid <= d.cid))
       ELSE IF idle # {}
       THEN Drain(StepRun(st,
                CHOOSE r \in idle : \A q \in idle : r.rid <= q.rid))
       ELSE st

\* the cache after the fetch f has resolved in getKlines: steps 4 and 5
StoreFetched_StaleStamp(c, f, data) ==
    LimitCacheSize(
        CleanExpiredCache(
            CacheSet(c, f.key,
                     [key |-> f.key, data |-> data,
                      cachedAt |-> now - CLEANUP_PERIOD,
                      startTime |-> f.startTime, endTime |-> f.endTime])),
        MAX_CACHE_ENTRIES)

StoreFetched(c, f, data) ==
    LimitCacheSize(
        CleanExpiredCache(
            CacheSet(c, f.key,
                     [key |-> f.key, data |-> data, cachedAt |-> now,
                      startTime |-> f.startTime, endTime |-> f.endTime])),
        MAX_CACHE_ENTRIES)

\* the backend answers the fetch f: the getKlines call that issued it caches
\* the bars and removes the in-flight record of its key, every awaiting
\* caller gets the bars
SettleOk(st, f) ==
    LET data == BackendBars(f.series, f.startTime, f.endTime)
        st1 == [st EXCEPT
                  !.cache = StoreFetched(@, f, data),
                  !.inflight = {r \in @ : r.key # f.key},
                  !.fetches = @ \ {f},
                  !.delivered =
                      @ \cup (IF f.callers > 0
                              THEN {[to |-> "getKlines", n |-> f.callers,
                                     status |-> "ok", data |-> data,
                                     id |-> f.fid]}
                              ELSE {})
                        \cup (IF f.desc > 0
                              THEN {[to |-> "getKlines", n |-> f.desc,
                                     status |-> "ok",
                                     data |-> Ordered("desc", data),
                                     id |-> f.fid, order |-> "desc"]}
                              ELSE {}),
                  !.extCalls =
                      {[c EXCEPT !.segs =
                          [i \in 1..Len(c.segs) |->
                             IF c.segs[i].fid = f.fid
                             THEN [fid |-> 0, data |-> data]
                             ELSE c.segs[i]]] : c \in @}]
    IN Drain(st1)

\* the backend call of the fetch f fails: getKlines removes the in-flight
\* record in its finally block and the error propagates to every awaiter
RECURSIVE RejectAll(_, _)
RejectAll(st, calls) ==
    IF calls = {} THEN st
    ELSE LET c == CHOOSE c \in calls : \A d \in calls : c.cid <= d.cid
         IN RejectAll(RejectCall(st, c), calls \ {c})

SettleFail_KeepsRecord(st, f) ==
    LET st1 == [st EXCEPT
                  !.fetches = @ \ {f},
                  !.delivered =
                      @ \cup (IF f.callers > 0
                              THEN {[to |-> "getKlines", n |-> f.callers,
                                     status |-> "rejected", data |-> <<>>,
                                     id |-> f.fid]}
                              ELSE {})
                        \cup (IF f.desc > 0
                              THEN {[to |-> "getKlines", n |-> f.desc,
                                     status |-> "rejected", data |-> <<>>,
                                     id |-> f.fid, order |-> "desc"]}
                              ELSE {})]
        hit == {c \in st.extCalls :
                  \E i \in 1..Len(c.segs) : c.segs[i].fid = f.fid}
    IN Drain(RejectAll(st1, hit))

SettleFail(st, f) ==
    LET st1 == [st EXCEPT
                  !.inflight = {r \in @ : r.key # f.key},
                  !.fetches = @ \ {f},
                  !.delivered =
                      @ \cup (IF f.callers > 0
                              THEN {[to |-> "getKlines", n |-> f.callers,
                                     status |-> "rejected", data |-> <<>>,
                                     id |-> f.fid]}
                              ELSE {})
                        \cup (IF f.desc > 0
                              THEN {[to |-> "getKlines", n |-> f.desc,
                                     status |-> "rejected", data |-> <<>>,
                                     id |-> f.fid, order |-> "desc"]}
                              ELSE {})]
        hit == {c \in st.extCalls :
                  \E i \in 1..Len(c.segs) : c.segs[i].fid = f.fid}
    IN Drain(RejectAll(st1, hit))

\* refreshLatestData up to its first suspension
RefreshLatestData(st) ==
    Drain([st EXCEPT !.runs =
              @ \cup {[rid |-> NextRid(st), queue |-> ToRefresh(st.cache)]}])

----------------------------------------------------------------------------
(* Batch loaders: preloadKlines and warmupCache *)

MathMin(a, b) == IF a = NaN \/ b = NaN THEN NaN ELSE IF a <= b THEN a ELSE b
MathMax(a, b) == IF a = NaN \/ b = NaN THEN NaN ELSE IF a >= b THEN a ELSE b

NextLid(st) ==
    IF st.loads = {} THEN 1
    ELSE 1 + (CHOOSE m \in {l.lid : l \in st.loads} :
                 \A l \in st.loads : l.lid <= m)

\* the getKlines requests of preloadKlines: symbols.flatMap over intervals
PreloadTasks(symbols, exchange, market, intervals, startTime, endTime) ==
    [k \in 1..(Len(symbols) * Len(intervals)) |->
        [series |-> <<exchange, market,
                      symbols[((k - 1) \div Len(intervals)) + 1],
                      intervals[((k - 1) % Len(intervals)) + 1]>>,
         startTime |-> startTime, endTime |-> endTime]]

SymbolRanges_LastTrade(trades, ranges) ==
    IF trades = <<>> THEN ranges
    ELSE <<[key |-> <<"binance", "futures", trades[Len(trades)].symbol>>,
            minStartTime |-> DateParse(trades[Len(trades)].openTime),
            maxEndTime |-> DateParse(trades[Len(trades)].closeTime)]>>

\* symbolRanges of warmupCache: one range per exchange:market:symbol in the
\* order of first occurrence, from the earliest open to the latest close
RECURSIVE SymbolRanges(_, _)
SymbolRanges(trades, ranges) ==
    IF trades = <<>> THEN ranges
    ELSE LET trade == Head(trades)
             key == <<"binance", "futures", trade.symbol>>
             startTime == DateParse(trade.openTime)
             endTime == DateParse(trade.closeTime)
             at == {i \in 1..Len(ranges) : ranges[i].key = key}
         IN SymbolRanges(
                Tail(trades),
                IF at # {}
                THEN [i \in 1..Len(ranges) |->
                        IF i \in at
                        THEN [ranges[i] EXCEPT
                                !.minStartTime = MathMin(@, startTime),
                                !.maxEndTime = MathMax(@, endTime)]
                        ELSE ranges[i]]
                ELSE Append(ranges, [key |-> key,
                                     minStartTime |-> startTime,
                                     maxEndTime |-> endTime]))

\* the getKlines requests of warmupCache: every range with every interval
WarmupTasks(ranges, intervals) ==
    [k \in 1..(Len(ranges) * Len(intervals)) |->
        LET range == ranges[((k - 1) \div Len(intervals)) + 1]
        IN [series |-> <<range.key[1], range.key[2], range.key[3],
                         intervals[((k - 1) % Len(intervals)) + 1]>>,
            startTime |-> ToISOString(range.minStartTime),
            endTime |-> ToISOString(range.maxEndTime)]]

\* the tasks array is filled by CALLING getKlines for every request: each
\* call runs up to its first await before the next one starts.  A task is
\* the fetch it awaits, 0 once it is fulfilled, -1 once it is rejected
RECURSIVE StartTasks(_, _, _)
TaskStarted(r, rest, tasks) ==
    StartTasks(IF r.fid # 0 THEN AddCaller(r.st, r.fid) ELSE r.st, rest,
               Append(tasks, r.fid))

StartTasks(st, requests, tasks) ==
    IF requests = <<>> THEN [st |-> st, tasks |-> tasks]
    ELSE TaskStarted(GetKlinesSync(st, Head(requests).series,
                                   Head(requests).startTime,
                                   Head(requests).endTime),
                     Tail(requests), tasks)

\* the batch loop: await Promise.all(tasks.slice(i, i + batchSize)).  The
\* call is "pending" at a batch with an unsettled task, "rejected" at a
\* batch with a rejected task, "resolved" after the last batch
RECURSIVE AwaitBatches(_)
AwaitBatches(l) ==
    IF l.i > Len(l.tasks) THEN [l EXCEPT !.status = "resolved"]
    ELSE LET batch == {l.tasks[k] :
                         k \in l.i..(l.i + l.batchSize - 1) \cap
                                  1..Len(l.tasks)}
         IN IF -1 \in batch THEN [l EXCEPT !.status = "rejected"]
            ELSE IF batch = {0}
            THEN AwaitBatches([l EXCEPT !.i = @ + l.batchSize])
            ELSE l

\* a loader call from its start to its first suspension
LoadStarted(op, batchSize, lid, started) ==
    LET l == AwaitBatches([lid |-> lid, op |-> op, tasks |-> started.tasks,
                           i |-> 1, batchSize |-> batchSize,
                           own |-> {f.fid : f \in started.st.issued},
                           status |-> "pending"])
    IN [started.st EXCEPT
          !.loads = IF l.status = "pending" THEN @ \cup {l} ELSE @,
          !.delivered = IF l.status = "pending" THEN @
                        ELSE @ \cup {[to |-> op, n |-> 1,
                                      status |-> l.status, data |-> <<>>,
                                      id |-> lid]}]

PreloadKlines(st, params) ==
    LoadStarted("preloadKlines", PRELOAD_BATCH_SIZE, NextLid(st),
                StartTasks(st,
                           PreloadTasks(params.symbols, "binance", "futures",
                                        params.intervals,
                                        ToISOString(params.startTime),
                                        ToISOString(params.endTime)),
                           <<>>))

WarmupCache(st, trades, intervals) ==
    LoadStarted("warmupCache", WARMUP_BATCH_SIZE, NextLid(st),
                StartTasks(st,
                           WarmupTasks(SymbolRanges(trades, <<>>), intervals),
                           <<>>))

\* the fetch fid settled (v = 0 fulfilled, v = -1 rejected): the tasks that
\* awaited it settle and every loader call goes on with its batch loop
LoadsAwaited(st, ls) ==
    [st EXCEPT
       !.loads = {l \in ls : l.status = "pending"},
       !.delivered = @ \cup {[to |-> l.op, n |-> 1, status |-> l.status,
                              data |-> <<>>, id |-> l.lid] :
                             l \in {x \in ls : x.status # "pending"}}]

SettleLoads(st, fid, v) ==
    LoadsAwaited(st,
        {AwaitBatches([l EXCEPT !.tasks =
                          [k \in 1..Len(l.tasks) |->
                              IF l.tasks[k] = fid THEN v ELSE l.tasks[k]]]) :
           l \in st.loads})

----------------------------------------------------------------------------
(* Steps *)

NoHk == [done |-> FALSE, cache |-> <<>>, before |-> 0]

Op(op, series, startTime, endTime, path, data, st, toRefresh, hk) ==
    [op |-> op, series |-> series, startTime |-> startTime,
     endTime |-> endTime, path |-> path, data |-> data,
     issued |-> st.issued, delivered |-> st.delivered, used |-> st.used,
     invoked |-> st.invoked, toRefresh |-> toRefresh, hk |-> hk,
     offline |-> offlineMode]

NoTime == ToISOString(NaN)

Commit(st) ==
    /\ st.nFetch <= MaxFetches
    /\ cache' = st.cache
    /\ inflightRequests' = st.inflight
    /\ fetches' = st.fetches
    /\ nFetch' = st.nFetch
    /\ extCalls' = st.extCalls
    /\ runs' = st.runs
    /\ loads' = st.loads

ServiceInit ==
    /\ now = T0
    /\ cache = <<>>
    /\ inflightRequests = {}
    /\ fetches = {}
    /\ nFetch = 0
    /\ extCalls = {}
    /\ runs = {}
    /\ loads = {}
    /\ offlineMode = FALSE
    /\ cleanupInterval = TRUE
    /\ refreshInterval = TRUE
    /\ cleanupTimers = 1
    /\ refreshTimers = 1
    /\ cleanupDue = 0
    /\ refreshDue = 0
    /\ nOps = 0
    /\ nAdmin = 0
    /\ nFail = 0
    /\ lastOp = Op("init", <<>>, NoTime, NoTime, "", <<>>, Cur, <<>>, NoHk)

NoAnalysis == [done |-> FALSE, error |-> FALSE, riskLevels |-> <<>>,
               optimalStopLoss |-> <<>>, klineRequests |-> <<>>]

NoResult == [done |-> FALSE, result |-> <<>>]

NoEviction == [done |-> FALSE, at |-> {}]

Init ==
    /\ ServiceInit
    /\ lenientDate \in BOOLEAN
    /\ allTrades = <<>>
    /\ analysis = NoAnalysis
    /\ posted = NoResult
    /\ held = <<>>
    /\ evicted = NoEviction

\* the application calls getKlines
GetKlines(in) ==
    LET series == SeriesOf(in[1])
        startTime == ToISOString(in[2])
        endTime == ToISOString(in[3])
        r == GetKlinesSync(Cur, series, startTime, endTime)
        st == IF r.fid # 0 THEN AddCaller(r.st, r.fid) ELSE r.st
    IN /\ nOps < MaxOps
       /\ nOps' = nOps + 1
       /\ Commit(st)
       /\ UNCHANGED simVars
       /\ lastOp' = Op("getKlines", series, startTime, endTime, r.path,
                       r.data, st, <<>>, NoHk)
       /\ UNCHANGED <<now, offlineMode, cleanupInterval, refreshInterval,
                      cleanupTimers, refreshTimers, cleanupDue, refreshDue,
                      lenientDate, nAdmin, nFail>>

\* the application calls getKlines with an order
GetKlinesOrdered(in, order) ==
    LET series == SeriesOf(in[1])
        startTime == ToISOString(in[2])
        endTime == ToISOString(in[3])
        r == GetKlinesSync(Cur, series, startTime, endTime)
        st == IF r.fid = 0 THEN r.st
              ELSE IF order = "desc" THEN AddDescCaller(r.st, r.fid)
              ELSE AddCaller(r.st, r.fid)
    IN /\ nOps < MaxOps
       /\ nOps' = nOps + 1
       /\ Commit(st)
       /\ UNCHANGED simVars
       /\ lastOp' = Op("getKlines", series, startTime, endTime, r.path,
                       Ordered(order, r.data), st, <<>>, NoHk)
                     @@ [order |-> order]
       /\ UNCHANGED <<now, offlineMode, cleanupInterval, refreshInterval,
                      cleanupTimers, refreshTimers, cleanupDue, refreshDue,
                      lenientDate, nAdmin, nFail>>

\* the application calls extendTimeRange
ExtendTimeRange(in) ==
    LET series == SeriesOf(in[1])
        newStartTime == ToISOString(in[2])
        newEndTime == ToISOString(in[3])
        st == Drain(ExtendSync(Cur, series, newStartTime, newEndTime, 0))
    IN /\ nOps < MaxOps
       /\ nOps' = nOps + 1
       /\ Commit(st)
       /\ UNCHANGED simVars
       /\ lastOp' = Op("extendTimeRange", series, newStartTime, newEndTime,
                       "", <<>>, st, <<>>, NoHk)
       /\ UNCHANGED <<now, offlineMode, cleanupInterval, refreshInterval,
                      cleanupTimers, refreshTimers, cleanupDue, refreshDue,
                      lenientDate, nAdmin, nFail>>

\* the application calls preloadKlines
Preload(params) ==
    LET st == PreloadKlines(Cur, params)
    IN /\ nOps < MaxOps
       /\ nOps' = nOps + 1
       /\ Commit(st)
       /\ UNCHANGED simVars
       /\ lastOp' = Op("preloadKlines", <<>>, ToISOString(params.startTime),
                       ToISOString(params.endTime), "", <<>>, st, <<>>, NoHk)
       /\ UNCHANGED <<now, offlineMode, cleanupInterval, refreshInterval,
                      cleanupTimers, refreshTimers, cleanupDue, refreshDue,
                      lenientDate, nAdmin, nFail>>

\* the application calls warmupCache
Warmup(in) ==
    LET trades == [k \in 1..Len(in.trades) |->
                     [symbol |-> in.trades[k].symbol,
                      openTime |-> ToISOString(in.trades[k].openTime),
                      closeTime |-> ToISOString(in.trades[k].closeTime)]]
        st == WarmupCache(Cur, trades, in.intervals)
    IN /\ nOps < MaxOps
       /\ nOps' = nOps + 1
       /\ Commit(st)
       /\ UNCHANGED simVars
       /\ lastOp' = Op("warmupCache", <<>>, NoTime, NoTime, "", <<in>>, st,
                       <<>>, NoHk)
       /\ UNCHANGED <<now, offlineMode, cleanupInterval, refreshInterval,
                      cleanupTimers, refreshTimers, cleanupDue, refreshDue,
                      lenientDate, nAdmin, nFail>>

\* the application calls getKlinesForRound
GetKlinesForRound(params) ==
    LET series == SeriesOf(IF params.interval = "" THEN "1m"
                           ELSE params.interval)
        startTime == ToISOString(params.openTime)
        endTime == ToISOString(params.closeTime)
        r == GetKlinesSync(Cur, series, startTime, endTime)
        st == IF r.fid # 0 THEN AddCaller(r.st, r.fid) ELSE r.st
    IN /\ nOps < MaxOps
       /\ nOps' = nOps + 1
       /\ Commit(st)
       /\ UNCHANGED simVars
       /\ lastOp' = Op("getKlinesForRound", series, startTime, endTime,
                       r.path, r.data, st, <<>>, NoHk)
       /\ UNCHANGED <<now, offlineMode, cleanupInterval, refreshInterval,
                      cleanupTimers, refreshTimers, cleanupDue, refreshDue,
                      lenientDate, nAdmin, nFail>>

\* the backend answers an outstanding fetch
FetchOk(f) ==
    LET st == SettleLoads(SettleOk(Cur, f), f.fid, 0)
        data == BackendBars(f.series, f.startTime, f.endTime)
        hk == [done |-> TRUE, cache |-> StoreFetched(cache, f, data),
               before |-> Len(CleanExpiredCache(CacheSet(cache, f.key,
                              [key |-> f.key, data |-> data,
                               cachedAt |-> now, startTime |-> f.startTime,
                               endTime |-> f.endTime])))]
    IN /\ Commit(st)
       /\ UNCHANGED simVars
       /\ lastOp' = Op("fetchOk", f.series, f.startTime, f.endTime, "",
                       data, st, <<>>, hk)
       /\ UNCHANGED <<now, offlineMode, cleanupInterval, refreshInterval,
                      cleanupTimers, refreshTimers, cleanupDue, refreshDue,
                      lenientDate, nOps, nAdmin, nFail>>

\* an outstanding fetch fails (network error or non-2xx answer)
FetchFail(f) ==
    LET st == SettleLoads(SettleFail(Cur, f), f.fid, -1)
    IN /\ nFail < MaxFailures
       /\ nFail' = nFail + 1
       /\ Commit(st)
       /\ UNCHANGED simVars
       /\ lastOp' = Op("fetchFail", f.series, f.startTime, f.endTime, "",
                       <<>>, st, <<>>, NoHk)
       /\ UNCHANGED <<now, offlineMode, cleanupInterval, refreshInterval,
                      cleanupTimers, refreshTimers, cleanupDue, refreshDue,
                      lenientDate, nOps, nAdmin>>

\* the refresh timer fires
RefreshTick ==
    LET st == RefreshLatestData(Cur)
    IN /\ refreshTimers > 0
       /\ refreshDue > 0
       /\ refreshDue' = refreshDue - 1
       /\ Commit(st)
       /\ UNCHANGED simVars
       /\ lastOp' = Op("refreshTick", <<>>, NoTime, NoTime, "", <<>>, st,
                       ToRefresh(cache), NoHk)
       /\ UNCHANGED <<now, offlineMode, cleanupInterval, refreshInterval,
                      cleanupTimers, refreshTimers, cleanupDue,
                      lenientDate, nOps, nAdmin, nFail>>

\* the cleanup timer fires
CleanupTick ==
    /\ cleanupTimers > 0
    /\ cleanupDue > 0
    /\ cleanupDue' = cleanupDue - 1
    /\ cache' = CheckMemoryUsage(
                    LimitCacheSize(CleanExpiredCache(cache),
                                   MAX_CACHE_ENTRIES))
    /\ UNCHANGED simVars
    /\ lastOp' = Op("cleanupTick", <<>>, NoTime, NoTime, "", <<>>, Cur,
                    <<>>, NoHk)
    /\ UNCHANGED <<now, inflightRequests, fetches, nFetch, extCalls, runs,
                   loads, offlineMode, cleanupInterval, refreshInterval,
                   cleanupTimers, refreshTimers, refreshDue, lenientDate,
                   nOps, nAdmin, nFail>>

\* the instants at which the model samples the clock: T0, then 5, 30, 35,
\* 40, ... minutes later, so that entries are seen at ages 0, 5, 25, 30
\* and 35 minutes (below, at and above both TTLs)
ClockStep ==
    IF now = T0 + CACHE_TTL_1M
    THEN CACHE_TTL_OTHER - CACHE_TTL_1M
    ELSE CACHE_TTL_1M

ClockEnd ==
    T0 + CACHE_TTL_OTHER + (MaxClockSteps - 2) * CACHE_TTL_1M

\* time passes; the timers that are live come due (a timer that comes due
\* several times while the event loop is busy or the page is throttled
\* fires late, and RefreshesPerStep bounds how often)
Advance ==
    /\ now + ClockStep <= ClockEnd
    /\ cleanupDue = 0
    /\ refreshDue = 0
    /\ now' = now + ClockStep
    /\ cleanupDue' = IF cleanupTimers > 0 THEN 1 ELSE 0
    /\ refreshDue' = IF refreshTimers > 0 THEN RefreshesPerStep ELSE 0
    /\ UNCHANGED simVars
    /\ lastOp' = Op("advance", <<>>, NoTime, NoTime, "", <<>>, Cur, <<>>,
                    NoHk)
    /\ UNCHANGED <<cache, inflightRequests, fetches, nFetch, extCalls, runs,
                   loads, offlineMode, cleanupInterval, refreshInterval,
                   cleanupTimers, refreshTimers, lenientDate, nOps, nAdmin,
                   nFail>>

\* stopSchedulers: both timers are cleared
StopSchedulers ==
    /\ cleanupTimers' = IF cleanupInterval THEN cleanupTimers - 1
                        ELSE cleanupTimers
    /\ refreshTimers' = IF refreshInterval THEN refreshTimers - 1
                        ELSE refreshTimers
    /\ cleanupInterval' = FALSE
    /\ refreshInterval' = FALSE
    /\ cleanupDue' = 0
    /\ refreshDue' = 0

ClearCache ==
    /\ nAdmin < MaxAdmin
    /\ nAdmin' = nAdmin + 1
    /\ cache' = <<>>
    /\ inflightRequests' = {}
    /\ UNCHANGED simVars
    /\ lastOp' = Op("clearCache", <<>>, NoTime, NoTime, "", <<>>, Cur, <<>>,
                    NoHk)
    /\ UNCHANGED <<now, fetches, nFetch, extCalls, runs, loads, offlineMode,
                   cleanupInterval, refreshInterval, cleanupTimers,
                   refreshTimers, cleanupDue, refreshDue, lenientDate,
                   nOps, nFail>>

DestroyWithin(limit) ==
    /\ nAdmin < limit
    /\ nAdmin' = nAdmin + 1
    /\ StopSchedulers
    /\ cache' = <<>>
    /\ inflightRequests' = {}
    /\ UNCHANGED simVars
    /\ lastOp' = Op("destroy", <<>>, NoTime, NoTime, "", <<>>, Cur, <<>>,
                    NoHk)
    /\ UNCHANGED <<now, fetches, nFetch, extCalls, runs, loads, offlineMode,
                   lenientDate, nOps, nFail>>

\* setOfflineMode: the gate is set; entering stops both timers, leaving
\* re-arms them
SetOfflineModeWithin(enabled, limit) ==
    /\ nAdmin < limit
    /\ nAdmin' = nAdmin + 1
    /\ offlineMode' = enabled
    /\ IF enabled
       THEN StopSchedulers
       ELSE /\ cleanupInterval' = TRUE
            /\ refreshInterval' = TRUE
            /\ cleanupTimers' = 1
            /\ refreshTimers' = 1
            /\ cleanupDue' = 0
            /\ refreshDue' = 0
    /\ UNCHANGED simVars
    /\ lastOp' = Op("setOfflineMode", <<>>, NoTime, NoTime, "", <<>>, Cur,
                    <<>>, NoHk)
    /\ UNCHANGED <<now, cache, inflightRequests, fetches, nFetch, extCalls,
                   runs, loads, lenientDate, nOps, nFail>>

Destroy == DestroyWithin(MaxAdmin)

SetOfflineMode(enabled) == SetOfflineModeWithin(enabled, MaxAdmin)

Next ==
    \/ \E in \in GetInputs : GetKlines(in)
    \/ \E in \in ExtendInputs : ExtendTimeRange(in)
    \/ \E f \in fetches : FetchOk(f)
    \/ \E f \in fetches : FetchFail(f)
    \/ RefreshTick
    \/ CleanupTick
    \/ Advance
    \/ ClearCache
    \/ Destroy
    \/ \E enabled \in BOOLEAN : SetOfflineMode(enabled)

Spec == Init /\ [][Next]_vars

\* the service under getKlines calls that ask for an order
Orders == {"asc", "desc"}

OrderNext ==
    \/ \E in \in GetInputs : \E order \in Orders : GetKlinesOrdered(in, order)
    \/ \E f \in fetches : FetchOk(f)
    \/ \E f \in fetches : FetchFail(f)

OrderSpec == Init /\ [][OrderNext]_vars

\* the service under getKlines calls alone, with a backend that answers
\* every call in the end: the promise of fetchKlines resolves or rejects
SettleNext ==
    \/ \E in \in GetInputs : GetKlines(in)
    \/ \E f \in fetches : FetchOk(f)
    \/ \E f \in fetches : FetchFail(f)
    \/ Advance
    \/ ClearCache

\* a step in which an outstanding fetch settles (FetchOk or FetchFail)
Settles == \E f \in fetches : fetches' = fetches \ {f}

SettleSpec == Init /\ [][SettleNext]_vars /\ WF_fetches(Settles)

\* the service as the pages that preload and warm the cache drive it
LoadNext ==
    \/ \E params \in PreloadInputs : Preload(params)
    \/ \E in \in WarmupInputs : Warmup(in)
    \/ \E in \in GetInputs : GetKlines(in)
    \/ \E f \in fetches : FetchOk(f)
    \/ \E f \in fetches : FetchFail(f)
    \/ RefreshTick
    \/ CleanupTick
    \/ Advance
    \/ ClearCache

LoadSpec == Init /\ [][LoadNext]_vars

\* the service as the analysis pages drive it: warmupCache, then
\* getKlinesForRound for the rounds
WarmNext ==
    \/ \E in \in WarmupInputs : Warmup(in)
    \/ \E params \in RoundInputs : GetKlinesForRound(params)
    \/ \E f \in fetches : FetchOk(f)
    \/ \E f \in fetches : FetchFail(f)
    \/ CleanupTick
    \/ Advance
    \/ ClearCache

WarmSpec == Init /\ [][WarmNext]_vars

----------------------------------------------------------------------------
(* Rounds the stop-loss analysis is run on *)

T_OPEN == P0
T_SECOND == P0 + 2 * MINUTE
T_CLOSE == P0 + 4 * MINUTE

\* the one-minute bar that opens k minutes after the round
Bar(k, low, high) ==
    [openTime |-> ToISOString(T_OPEN + k * MINUTE),
     closeTime |-> ToISOString(T_OPEN + (k + 1) * MINUTE - 1),
     low |-> low, high |-> high]

\* <<low, high>> of a bar around the entry price 100: quiet, a dip to 94,
\* a rise to 106, a rise to eleven times the entry price
BarShapes == {<<99, 101>>, <<94, 101>>, <<99, 106>>, <<99, 1100>>}

\* what the backend answers to the bar request of a round: ok is FALSE
\* when the request fails, array is FALSE when the data of the answer is
\* not a list of bars
Answer(data) == [ok |-> TRUE, array |-> TRUE, data |-> data]

KlineAnswers ==
    {[ok |-> FALSE, array |-> TRUE, data |-> <<>>],
     [ok |-> TRUE, array |-> FALSE, data |-> <<>>],
     Answer(<<>>)}
    \cup {Answer(<<Bar(1, s[1], s[2])>>) : s \in BarShapes}
    \cup {Answer(<<Bar(1, s[1], s[2]), Bar(3, u[1], u[2])>>) :
            s \in BarShapes, u \in BarShapes}

\* what the backend answers to the request of the open fills of a round
Fills ==
    <<[price |-> 102, quantity |-> 1, timestamp |-> ToISOString(T_OPEN)],
      [price |-> 98, quantity |-> 1, timestamp |-> ToISOString(T_SECOND)]>>

OpenAnswers ==
    {[openTradeIds |-> 1, opens |-> [ok |-> FALSE, data |-> <<>>]],
     [openTradeIds |-> 2, opens |-> [ok |-> FALSE, data |-> <<>>]],
     [openTradeIds |-> 2, opens |-> [ok |-> TRUE, data |-> Fills]]}

Round(side, entry, fee, klines, o) ==
    [positionSide |-> side, avgEntryPrice |-> entry, avgExitPrice |-> 110,
     totalQuantity |-> 2,
     realizedPnl |-> (IF side = "LONG" THEN 10 * 2 ELSE -10 * 2) - fee,
     realizedPnlNull |-> FALSE,
     openTradeIds |-> o.openTradeIds, opens |-> o.opens, klines |-> klines,
     openTime |-> ToISOString(T_OPEN), closeTime |-> ToISOString(T_CLOSE)]

Rounds ==
    {Round(side, 100, fee, klines, o) :
       side \in {"LONG", "SHORT"}, fee \in {0, 1}, klines \in KlineAnswers,
       o \in OpenAnswers}

\* a round whose realizedPnl is null in the answer of the round query
NullPnl(r) == [r EXCEPT !.realizedPnl = 0, !.realizedPnlNull = TRUE]

\* the rounds that come second in a list of two: one with a zero entry
\* price, one without bars, one stopped at the levels down to -6%, one
\* whose bar answer is not a list, one short round, one without a pnl
Companions ==
    LET one == [openTradeIds |-> 1, opens |-> [ok |-> FALSE, data |-> <<>>]]
    IN {Round("LONG", 0, 0, Answer(<<>>), one),
        Round("LONG", 100, 0, Answer(<<>>), one),
        Round("LONG", 100, 0, Answer(<<Bar(1, 94, 101)>>), one),
        Round("LONG", 100, 1, [ok |-> TRUE, array |-> FALSE, data |-> <<>>],
              one),
        Round("SHORT", 100, 0, Answer(<<Bar(1, 99, 106)>>), one),
        NullPnl(Round("LONG", 100, 0, Answer(<<Bar(1, 99, 101)>>), one))}

WithId(r, id) ==
    [roundId |-> id, positionSide |-> r.positionSide,
     avgEntryPrice |-> r.avgEntryPrice, avgExitPrice |-> r.avgExitPrice,
     totalQuantity |-> r.totalQuantity, realizedPnl |-> r.realizedPnl,
     realizedPnlNull |-> r.realizedPnlNull,
     openTradeIds |-> r.openTradeIds, opens |-> r.opens,
     klines |-> r.klines, openTime |-> r.openTime,
     closeTime |-> r.closeTime]

\* response.data of the round query
TradeInputs ==
    {<<>>}
    \cup {<<WithId(r, 1)>> : r \in Rounds}
    \cup {<<WithId(r, 1), WithId(c, 2)>> : r \in Rounds, c \in Companions}

----------------------------------------------------------------------------
(* Stop-loss analysis (src/src/components/charts/stop-loss-dialog.tsx,     *)
(* calculateStopLoss, and the worker function computeForLevel of           *)
(* kline-cache.ts).                                                        *)
(*                                                                         *)
(* Numbers are exact: a price or an amount of a result is an integer       *)
(* number of thousandths (the inputs are whole numbers), a stop-loss       *)
(* level is an integer number of tenths of a percent (-5 is -0.5%), a      *)
(* rate is a fraction [num, den] of percents with den > 0.  The rounding   *)
(* of the binary floating point operations of the source is not modelled.  *)

THOUSAND == 10 * 100

\* stopLossLevels, in tenths of a percent
NO_STOP == -9990
DEBUG_LEVEL == -20
DEBUG_TRADES == 3
WARM_CONCURRENCY == 10

stopLossLevels ==
    <<NO_STOP, -5, -10, -15, -20, -25, -30, -35, -40, -50, -60, -80, -100,
      -120, -150, -200, -250, -300, -350, -400, -450, -500>>

RateLe_Strict(r, p) == r.num * 10 < p * r.den

\* a rate r is at most the level p
RateLe(r, p) == r.num * 10 <= p * r.den

Rate(num, den) == [num |-> num, den |-> den]

\* the percentage of the difference d in the price base
Percent(d, base) == Rate(d * 100, base)

\* price * (1 + p / 100) for a long position, price * (1 - p / 100) for a
\* short one, in thousandths
StopPrice(isLong, price, p) ==
    IF isLong THEN price * (THOUSAND + p) ELSE price * (THOUSAND - p)

SeqMin(s) == CHOOSE x \in {s[i] : i \in 1..Len(s)} :
                 \A i \in 1..Len(s) : x <= s[i]

SeqMax(s) == CHOOSE x \in {s[i] : i \in 1..Len(s)} :
                 \A i \in 1..Len(s) : x >= s[i]

Lows(klines) == [i \in 1..Len(klines) |-> klines[i].low]
Highs(klines) == [i \in 1..Len(klines) |-> klines[i].high]

SelectBars(klines, Test(_)) ==
    LET RECURSIVE Build(_)
        Build(i) ==
            IF i > Len(klines) THEN <<>>
            ELSE (IF Test(klines[i]) THEN <<klines[i]>> ELSE <<>>)
                 \o Build(i + 1)
    IN Build(1)

\* Number(x.toFixed(2)) of an amount x given in thousandths, in hundredths
\* (n / 100 closest to x, the larger n in magnitude when two are as close)
ToFixed2(x) ==
    IF x >= 0 THEN (x + 5) \div 10 ELSE -((-x + 5) \div 10)

----------------------------------------------------------------------------
(* calculateStopLoss of the dialog *)

\* getKlinesOnce: the data of the backend's answer, [] when the request
\* failed.  The data is returned as it came: array is FALSE when it is
\* not a list, and then klines.length is undefined and klines.filter and
\* klines.map throw a TypeError
GetKlinesOnce(trade) ==
    IF trade.klines.ok
    THEN [array |-> trade.klines.array, data |-> trade.klines.data]
    ELSE [array |-> TRUE, data |-> <<>>]

\* opens.sort((a, b) => time(a) - time(b)): stable, ascending
RECURSIVE SortByTimestamp(_)
InsertByTimestamp(x, s) ==
    LET later == {i \in 1..Len(s) :
                    Gt(DateParse(s[i].timestamp), DateParse(x.timestamp))}
        at == IF later = {} THEN Len(s) + 1
              ELSE CHOOSE i \in later : \A j \in later : i <= j
    IN SubSeq(s, 1, at - 1) \o <<x>> \o SubSeq(s, at, Len(s))

SortByTimestamp(s) ==
    IF s = <<>> THEN <<>>
    ELSE InsertByTimestamp(s[Len(s)], SortByTimestamp(SubSeq(s, 1, Len(s) - 1)))

\* getFirstTwoOpensOnce: [] unless the round has two open trade ids, the
\* fills sorted by timestamp, [] when the request failed
GetFirstTwoOpensOnce(trade) ==
    IF trade.openTradeIds < 2 THEN <<>>
    ELSE IF trade.opens.ok
    THEN SortByTimestamp(trade.opens.data)
    ELSE <<>>

EmptyLevel ==
    [totalTrades |-> 0, profitTrades |-> 0, lossTrades |-> 0,
     totalProfitAmount |-> 0, totalLossAmount |-> 0, totalNetProfit |-> 0,
     profitTradeDetails |-> <<>>, lossTradeDetails |-> <<>>]

\* totalTrades++, the net profit and the profit or loss side of the level
Count(acc, detail) ==
    [acc EXCEPT
       !.totalTrades = @ + 1,
       !.totalNetProfit = @ + detail.pnlAmount,
       !.profitTrades = IF detail.pnlAmount > 0 THEN @ + 1 ELSE @,
       !.totalProfitAmount =
           IF detail.pnlAmount > 0 THEN @ + detail.pnlAmount ELSE @,
       !.profitTradeDetails =
           IF detail.pnlAmount > 0 THEN Append(@, detail) ELSE @,
       !.lossTrades = IF detail.pnlAmount < 0 THEN @ + 1 ELSE @,
       !.totalLossAmount =
           IF detail.pnlAmount < 0 THEN @ - detail.pnlAmount ELSE @,
       !.lossTradeDetails =
           IF detail.pnlAmount < 0 THEN Append(@, detail) ELSE @]

\* A price or a quantity of a round may be a number that is not finite:
\* NaN, or Infinity (what JSON.parse makes of 1e999).  !x holds of 0 and of
\* NaN, not of Infinity.
Infinity == -2

Falsy(x) == x = 0 \/ x = NaN

IsFinite(x) == x # NaN /\ x # Infinity

\* a price in thousandths
Thousandths(x) == IF IsFinite(x) THEN x * THOUSAND ELSE x

\* the detail of a round that keeps its real outcome: the no-bar fallback
\* and the catch block of the round.  A rate with den = 0 is no finite
\* number: NaN when the entry price is infinite, else infinite.
FallbackDetail(trade) ==
    LET isLong == trade.positionSide = "LONG"
    IN [roundId |-> trade.roundId,
        positionSide |-> trade.positionSide,
        entryPrice |-> Thousandths(trade.avgEntryPrice),
        exitPrice |-> Thousandths(trade.avgExitPrice),
        quantity |-> trade.totalQuantity,
        finalPrice |-> Thousandths(trade.avgExitPrice),
        pnlAmount |-> trade.realizedPnl * THOUSAND,
        pnlRate |-> IF ~IsFinite(trade.avgEntryPrice) THEN Rate(NaN, 0)
                    ELSE IF ~IsFinite(trade.avgExitPrice)
                    THEN Rate(Infinity, 0)
                    ELSE Percent(
                            IF isLong
                            THEN trade.avgExitPrice - trade.avgEntryPrice
                            ELSE trade.avgEntryPrice - trade.avgExitPrice,
                            trade.avgEntryPrice),
        originalPnlAmount |-> trade.realizedPnl * THOUSAND,
        wouldHitStopLoss |-> FALSE,
        maxDrawdownRate |-> Rate(0, 1)]

BetweenK_Strict(klines, firstOpenTime, secondOpenTime) ==
    LET Between(k) == /\ k.openTime.v > firstOpenTime.v
                      /\ k.closeTime.v < secondOpenTime.v
    IN SelectBars(klines, Between)

\* the bars between the first and the second open fill
BetweenK(klines, firstOpenTime, secondOpenTime) ==
    LET Between(k) == /\ StrGe(k.openTime, firstOpenTime)
                      /\ StrLe(k.closeTime, secondOpenTime)
    IN SelectBars(klines, Between)

\* the early stop of a round with several open fills: [hit |-> TRUE] with
\* the detail when a bar between the first two fills reaches the stop
\* price of the first fill; [hit |-> FALSE] when none does, when the fills
\* are not known, and when the block throws (a fill without a valid
\* timestamp, bars that are not a list): its catch ignores the error
EarlyDetail_TotalQuantity(trade, isLong, first, firstStopPrice, extreme) ==
    [roundId |-> trade.roundId,
     positionSide |-> trade.positionSide,
     entryPrice |-> first.price * THOUSAND,
     exitPrice |-> trade.avgExitPrice * THOUSAND,
     quantity |-> trade.totalQuantity,
     finalPrice |-> firstStopPrice,
     pnlAmount |-> (IF isLong
                    THEN firstStopPrice - first.price * THOUSAND
                    ELSE first.price * THOUSAND - firstStopPrice)
                   * trade.totalQuantity,
     pnlRate |-> Percent(IF isLong
                         THEN firstStopPrice - first.price * THOUSAND
                         ELSE first.price * THOUSAND - firstStopPrice,
                         first.price * THOUSAND),
     originalPnlAmount |-> trade.realizedPnl * THOUSAND,
     wouldHitStopLoss |-> TRUE,
     maxDrawdownRate |-> Percent(IF isLong THEN extreme - first.price
                                 ELSE first.price - extreme, first.price)]

EarlyDetail(trade, isLong, first, firstStopPrice, extreme) ==
    [roundId |-> trade.roundId,
     positionSide |-> trade.positionSide,
     entryPrice |-> first.price * THOUSAND,
     exitPrice |-> trade.avgExitPrice * THOUSAND,
     quantity |-> first.quantity,
     finalPrice |-> firstStopPrice,
     pnlAmount |-> (IF isLong
                    THEN firstStopPrice - first.price * THOUSAND
                    ELSE first.price * THOUSAND - firstStopPrice)
                   * first.quantity,
     pnlRate |-> Percent(IF isLong
                         THEN firstStopPrice - first.price * THOUSAND
                         ELSE first.price * THOUSAND - firstStopPrice,
                         first.price * THOUSAND),
     originalPnlAmount |-> trade.realizedPnl * THOUSAND,
     wouldHitStopLoss |-> TRUE,
     maxDrawdownRate |-> Percent(IF isLong THEN extreme - first.price
                                 ELSE first.price - extreme, first.price)]

EarlyHit(trade, isLong, first, firstStopPrice, extreme) ==
    IF IF isLong THEN extreme * THOUSAND <= firstStopPrice
       ELSE extreme * THOUSAND >= firstStopPrice
    THEN [hit |-> TRUE,
          detail |-> EarlyDetail(trade, isLong, first, firstStopPrice,
                                 extreme)]
    ELSE [hit |-> FALSE]

EarlyScan(trade, isLong, first, stopLossPercentage, betweenK) ==
    IF betweenK = <<>> THEN [hit |-> FALSE]
    ELSE EarlyHit(trade, isLong, first,
                  StopPrice(isLong, first.price, stopLossPercentage),
                  IF isLong THEN SeqMin(Lows(betweenK))
                  ELSE SeqMax(Highs(betweenK)))

EarlyStop(trade, klines, stopLossPercentage, openTrades) ==
    IF Len(openTrades) < 2 THEN [hit |-> FALSE]
    ELSE IF \/ DateParse(openTrades[1].timestamp) = NaN
            \/ DateParse(openTrades[2].timestamp) = NaN
            \/ ~klines.array
    THEN [hit |-> FALSE]
    ELSE EarlyScan(trade, trade.positionSide = "LONG", openTrades[1],
                   stopLossPercentage,
                   BetweenK(klines.data,
                            ToISOString(DateParse(openTrades[1].timestamp)),
                            ToISOString(DateParse(openTrades[2].timestamp))))

PathDetail_RealMove(trade, isLong, stopLossPercentage, maxDrawdownRate) ==
    LET entryPrice == trade.avgEntryPrice
        wouldHitStopLoss == RateLe(maxDrawdownRate, stopLossPercentage)
        finalPrice == IF wouldHitStopLoss
                      THEN StopPrice(isLong, entryPrice, stopLossPercentage)
                      ELSE trade.avgExitPrice * THOUSAND
        move == IF isLong
                THEN (trade.avgExitPrice - entryPrice) * THOUSAND
                ELSE (entryPrice - trade.avgExitPrice) * THOUSAND
    IN [roundId |-> trade.roundId,
        positionSide |-> trade.positionSide,
        entryPrice |-> entryPrice * THOUSAND,
        exitPrice |-> trade.avgExitPrice * THOUSAND,
        quantity |-> trade.totalQuantity,
        finalPrice |-> finalPrice,
        pnlAmount |-> move * trade.totalQuantity,
        pnlRate |-> Percent(move, entryPrice * THOUSAND),
        originalPnlAmount |-> trade.realizedPnl * THOUSAND,
        wouldHitStopLoss |-> wouldHitStopLoss,
        maxDrawdownRate |-> maxDrawdownRate]

\* the single path of a round: the stop price when the maximum adverse
\* excursion reaches the level, the real exit otherwise
PathDetail(trade, isLong, stopLossPercentage, maxDrawdownRate) ==
    LET entryPrice == trade.avgEntryPrice
        wouldHitStopLoss == RateLe(maxDrawdownRate, stopLossPercentage)
        finalPrice == IF wouldHitStopLoss
                      THEN StopPrice(isLong, entryPrice, stopLossPercentage)
                      ELSE trade.avgExitPrice * THOUSAND
        move == IF isLong THEN finalPrice - entryPrice * THOUSAND
                ELSE entryPrice * THOUSAND - finalPrice
    IN [roundId |-> trade.roundId,
        positionSide |-> trade.positionSide,
        entryPrice |-> entryPrice * THOUSAND,
        exitPrice |-> trade.avgExitPrice * THOUSAND,
        quantity |-> trade.totalQuantity,
        finalPrice |-> finalPrice,
        pnlAmount |-> move * trade.totalQuantity,
        pnlRate |-> Percent(move, entryPrice * THOUSAND),
        originalPnlAmount |-> trade.realizedPnl * THOUSAND,
        wouldHitStopLoss |-> wouldHitStopLoss,
        maxDrawdownRate |-> maxDrawdownRate]

SinglePath(trade, isLong, stopLossPercentage, extreme) ==
    PathDetail(trade, isLong, stopLossPercentage,
               Percent(IF isLong THEN extreme - trade.avgEntryPrice
                       ELSE trade.avgEntryPrice - extreme,
                       trade.avgEntryPrice))

\* after a round is counted on the single path, the level -2.0% logs the
\* first three rounds it has counted.  The log formats trade.realizedPnl
\* with toFixed: on a null it throws a TypeError, and the catch block of
\* the round then counts the round with its fallback detail
DebugLog(acc, trade, stopLossPercentage) ==
    IF /\ stopLossPercentage = DEBUG_LEVEL
       /\ acc.totalTrades <= DEBUG_TRADES
       /\ trade.realizedPnlNull
    THEN Count(acc, FallbackDetail(trade))
    ELSE acc

\* after the early stop block: its detail on a hit; else the single path,
\* or the catch block of the round when klines.map throws
AfterEarly(acc, trade, klines, stopLossPercentage, early) ==
    IF early.hit THEN Count(acc, early.detail)
    ELSE IF ~klines.array THEN Count(acc, FallbackDetail(trade))
    ELSE DebugLog(
             Count(acc,
                   SinglePath(trade, trade.positionSide = "LONG",
                              stopLossPercentage,
                              IF trade.positionSide = "LONG"
                              THEN SeqMin(Lows(klines.data))
                              ELSE SeqMax(Highs(klines.data)))),
             trade, stopLossPercentage)

WithKlines(acc, trade, klines, stopLossPercentage) ==
    IF klines.array /\ klines.data = <<>>
    THEN Count(acc, FallbackDetail(trade))
    ELSE AfterEarly(acc, trade, klines, stopLossPercentage,
                    IF trade.openTradeIds >= 2
                    THEN EarlyStop(trade, klines, stopLossPercentage,
                                   GetFirstTwoOpensOnce(trade))
                    ELSE [hit |-> FALSE])

\* the body of the loop over the rounds, for one round
ProcessTrade(acc, trade, stopLossPercentage) ==
    IF \/ Falsy(trade.avgEntryPrice)
       \/ Falsy(trade.avgExitPrice)
       \/ Falsy(trade.totalQuantity)
    THEN acc
    ELSE WithKlines(acc, trade, GetKlinesOnce(trade), stopLossPercentage)

RECURSIVE ProcessTrades(_, _, _)
ProcessTrades(acc, trades, stopLossPercentage) ==
    IF trades = <<>> THEN acc
    ELSE ProcessTrades(ProcessTrade(acc, Head(trades), stopLossPercentage),
                       Tail(trades), stopLossPercentage)

\* Number(x.toFixed(d)) of a quotient x = num / den that is not negative:
\* the whole number of units closest to it, for num counted in units
Nearest(num, den) == (2 * num + den) \div (2 * den)

\* the aggregates of a level before they are rounded, as quotients: the
\* win rate in percent, the averages in thousandths, the profit factor
WinRate(acc) ==
    IF acc.totalTrades > 0 THEN Rate(acc.profitTrades * 100, acc.totalTrades)
    ELSE Rate(0, 1)

AvgProfit(acc) ==
    IF acc.profitTrades > 0 THEN Rate(acc.totalProfitAmount, acc.profitTrades)
    ELSE Rate(0, 1)

AvgLoss_PerTrade(acc) ==
    IF acc.lossTrades > 0 THEN Rate(acc.totalLossAmount, acc.totalTrades)
    ELSE Rate(0, 1)

AvgLoss(acc) ==
    IF acc.lossTrades > 0 THEN Rate(acc.totalLossAmount, acc.lossTrades)
    ELSE Rate(0, 1)

\* avgLoss > 0 ? avgProfit / avgLoss : 0
ProfitFactor(avgProfit, avgLoss) ==
    IF avgLoss.num > 0
    THEN Rate(avgProfit.num * avgLoss.den, avgProfit.den * avgLoss.num)
    ELSE Rate(0, 1)

\* the result of one level; the sentinel is reported as percentage 0.
\* winRate is in tenths of a percent, avgProfit, avgLoss and profitFactor
\* are in hundredths
LevelResult(acc, percentage) ==
    [percentage |-> percentage,
     totalProfit |-> ToFixed2(acc.totalNetProfit),
     totalProfitAmount |-> ToFixed2(acc.totalProfitAmount),
     totalLossAmount |-> ToFixed2(acc.totalLossAmount),
     winRate |-> Nearest(WinRate(acc).num * 10, WinRate(acc).den),
     avgProfit |-> Nearest(AvgProfit(acc).num, AvgProfit(acc).den * 10),
     avgLoss |-> Nearest(AvgLoss(acc).num, AvgLoss(acc).den * 10),
     profitFactor |->
         Nearest(ProfitFactor(AvgProfit(acc), AvgLoss(acc)).num * 100,
                 ProfitFactor(AvgProfit(acc), AvgLoss(acc)).den),
     totalTrades |-> acc.totalTrades,
     profitTrades |-> acc.profitTrades,
     lossTrades |-> acc.lossTrades,
     profitTradeDetails |-> acc.profitTradeDetails,
     lossTradeDetails |-> acc.lossTradeDetails]

RiskLevel(trades, stopLossPercentage) ==
    LevelResult(ProcessTrades(EmptyLevel, trades, stopLossPercentage),
                IF stopLossPercentage = NO_STOP THEN 0
                ELSE stopLossPercentage)

\* riskLevels.reduce((best, current) =>
\*     current.totalProfit > best.totalProfit ? current : best)
RECURSIVE Reduce_LastMax(_, _)
Reduce_LastMax(best, rest) ==
    IF rest = <<>> THEN best
    ELSE Reduce_LastMax(IF Head(rest).totalProfit >= best.totalProfit
                        THEN Head(rest) ELSE best,
                        Tail(rest))

RECURSIVE Reduce(_, _)
Reduce(best, rest) ==
    IF rest = <<>> THEN best
    ELSE Reduce(IF Head(rest).totalProfit > best.totalProfit
                THEN Head(rest) ELSE best,
                Tail(rest))

BestLevel(riskLevels) == Reduce(Head(riskLevels), Tail(riskLevels))

----------------------------------------------------------------------------
(* computeForLevel of the worker *)

\* the for loop over klineTimestamps: TRUE at the first bar, in time
\* order, whose low (long) or high (short) reaches stopLossPrice
RECURSIVE Triggered(_, _, _, _)
Triggered(m, isLong, stopLossPrice, i) ==
    IF i > Len(m.klineTimestamps) THEN FALSE
    ELSE IF isLong /\ m.klineLows[i] * THOUSAND <= stopLossPrice THEN TRUE
    ELSE IF ~isLong /\ m.klineHighs[i] * THOUSAND >= stopLossPrice
    THEN TRUE
    ELSE Triggered(m, isLong, stopLossPrice, i + 1)

WorkerDetail(m, isLong, entryPrice, quantity, finalPrice, wouldHitStopLoss, maxDrawdownRate) ==
    [roundId |-> m.roundId,
     positionSide |-> m.positionSide,
     entryPrice |-> entryPrice * THOUSAND,
     exitPrice |-> m.exitPrice * THOUSAND,
     quantity |-> quantity,
     finalPrice |-> finalPrice,
     pnlAmount |-> (IF isLong THEN finalPrice - entryPrice * THOUSAND
                    ELSE entryPrice * THOUSAND - finalPrice) * quantity,
     pnlRate |-> Percent(IF isLong THEN finalPrice - entryPrice * THOUSAND
                         ELSE entryPrice * THOUSAND - finalPrice,
                         entryPrice * THOUSAND),
     wouldHitStopLoss |-> wouldHitStopLoss,
     maxDrawdownRate |-> maxDrawdownRate]

\* the detail of one metric at one level
ComputeMetric(m, isLong, percentage) ==
    IF /\ percentage # 0
       /\ m.early.defined
       /\ RateLe(m.early.earlyDrawdownRate, percentage)
    THEN WorkerDetail(m, isLong, m.early.earlyFirstOpenPrice,
                      m.early.earlyFirstOpenQty,
                      StopPrice(isLong, m.early.earlyFirstOpenPrice,
                                percentage),
                      TRUE, m.early.earlyDrawdownRate)
    ELSE IF /\ percentage # 0
            /\ Len(m.klineLows) = Len(m.klineHighs)
            /\ Len(m.klineHighs) = Len(m.klineTimestamps)
            /\ Len(m.klineLows) > 0
            /\ Triggered(m, isLong,
                         StopPrice(isLong, m.entryPrice, percentage), 1)
    THEN WorkerDetail(m, isLong, m.entryPrice, m.quantity,
                      StopPrice(isLong, m.entryPrice, percentage),
                      TRUE, m.maxDrawdownRate)
    ELSE WorkerDetail(m, isLong, m.entryPrice, m.quantity,
                      m.exitPrice * THOUSAND, FALSE, m.maxDrawdownRate)

RECURSIVE ComputeMetrics(_, _, _)
ComputeMetrics(acc, metrics, percentage) ==
    IF metrics = <<>> THEN acc
    ELSE ComputeMetrics(
             IF \/ Falsy(Head(metrics).entryPrice)
                \/ Falsy(Head(metrics).exitPrice)
                \/ Falsy(Head(metrics).quantity)
             THEN acc
             ELSE Count(acc, ComputeMetric(Head(metrics),
                                Head(metrics).positionSide = "LONG",
                                percentage)),
             Tail(metrics), percentage)

ComputeForLevel(percentage, metrics) ==
    LevelResult(ComputeMetrics(EmptyLevel, metrics, percentage), percentage)

\* the metric of a round as it is sent to the worker: the extremes of the
\* bars as arrays, the first open fill and the excursion of the bars
\* between the first two fills when the fills are known
EarlyMetric(first, isLong, betweenK) ==
    IF betweenK = <<>>
    THEN [defined |-> FALSE]
    ELSE [defined |-> TRUE,
          earlyFirstOpenPrice |-> first.price,
          earlyFirstOpenQty |-> first.quantity,
          earlyDrawdownRate |->
              Percent(IF isLong THEN SeqMin(Lows(betweenK)) - first.price
                      ELSE first.price - SeqMax(Highs(betweenK)),
                      first.price)]

MetricOf(trade, isLong, klines, openTrades) ==
    [roundId |-> trade.roundId,
     positionSide |-> trade.positionSide,
     entryPrice |-> trade.avgEntryPrice,
     exitPrice |-> trade.avgExitPrice,
     quantity |-> trade.totalQuantity,
     realizedPnl |-> trade.realizedPnl,
     maxDrawdownRate |->
         IF klines = <<>> \/ trade.avgEntryPrice = 0 THEN Rate(0, 1)
         ELSE Percent(IF isLong
                      THEN SeqMin(Lows(klines)) - trade.avgEntryPrice
                      ELSE trade.avgEntryPrice - SeqMax(Highs(klines)),
                      trade.avgEntryPrice),
     early |-> IF Len(openTrades) < 2 THEN [defined |-> FALSE]
               ELSE EarlyMetric(openTrades[1], isLong,
                                BetweenK(klines, openTrades[1].timestamp,
                                         openTrades[2].timestamp)),
     klineLows |-> Lows(klines),
     klineHighs |-> Highs(klines),
     klineTimestamps |->
         [i \in 1..Len(klines) |-> DateParse(klines[i].openTime)]]

PreparedMetrics(trades) ==
    [i \in 1..Len(trades) |->
        MetricOf(trades[i], trades[i].positionSide = "LONG",
                 GetKlinesOnce(trades[i]).data,
                 GetFirstTwoOpensOnce(trades[i]))]

\* klineCache, the Map of getKlinesOnce, and the listKlines calls made: has
\* is the set of roundIds the Map has, requests lists the roundIds asked for
NoMemo == [has |-> {}, requests |-> <<>>]

Remember_SuccessOnly(memo, trade) ==
    IF trade.klines.ok THEN [memo EXCEPT !.has = @ \cup {trade.roundId}]
    ELSE memo

\* the request of getKlinesOnce has settled: klineCache.set in the try block
\* and in the catch block alike
Remember(memo, trade) == [memo EXCEPT !.has = @ \cup {trade.roundId}]

RECURSIVE RememberAll(_, _)
RememberAll(memo, trades) ==
    IF trades = <<>> THEN memo
    ELSE RememberAll(Remember(memo, Head(trades)), Tail(trades))

\* warmCaches: getKlinesOnce is called for every round of a batch before any
\* answer has arrived, the next batch starts when all have settled
RECURSIVE WarmCaches(_, _)
WarmCaches(memo, trades) ==
    IF trades = <<>> THEN memo
    ELSE LET n == IF Len(trades) < WARM_CONCURRENCY THEN Len(trades)
                  ELSE WARM_CONCURRENCY
             batch == SubSeq(trades, 1, n)
             asked == SelectSeq([k \in 1..n |-> batch[k].roundId],
                                LAMBDA id : id \notin memo.has)
         IN WarmCaches(
                RememberAll([memo EXCEPT !.requests = @ \o asked], batch),
                SubSeq(trades, n + 1, Len(trades)))

\* the getKlinesOnce calls of the loop of one level: one for every round
\* that is not skipped, each awaited before the next
RECURSIVE LevelLoop(_, _)
LevelLoop(memo, trades) ==
    IF trades = <<>> THEN memo
    ELSE LET trade == Head(trades)
         IN LevelLoop(
                IF \/ trade.avgEntryPrice = 0
                   \/ trade.avgExitPrice = 0
                   \/ trade.totalQuantity = 0
                THEN memo
                ELSE Remember(
                         IF trade.roundId \in memo.has THEN memo
                         ELSE [memo EXCEPT
                                 !.requests = Append(@, trade.roundId)],
                         trade),
                Tail(trades))

\* the roundIds listKlines is called for during calculateStopLoss:
\* warmCaches, then the loops of the levels, which Promise.all starts
\* together, so that a level finds the rounds remembered by warmCaches and
\* by its own earlier calls
KlineRequests(trades) ==
    LET warm == WarmCaches(NoMemo, trades)
    IN warm.requests
       \o FlatSeq([i \in 1..Len(stopLossLevels) |->
                     LevelLoop([warm EXCEPT !.requests = <<>>], trades).requests])

\* the levels the worker is asked for: 0 stands for the sentinel
WorkerLevels ==
    {IF stopLossLevels[i] = NO_STOP THEN 0 ELSE stopLossLevels[i] :
       i \in 1..Len(stopLossLevels)}

\* the dialog opens: calculateStopLoss runs on the rounds of the query
CalculateStopLoss ==
    LET riskLevels == [i \in 1..Len(stopLossLevels) |->
                          RiskLevel(allTrades, stopLossLevels[i])]
    IN /\ ~analysis.done
       /\ analysis' =
            IF allTrades = <<>>
            THEN [done |-> TRUE, error |-> TRUE, riskLevels |-> <<>>,
                  optimalStopLoss |-> <<>>, klineRequests |-> <<>>]
            ELSE [done |-> TRUE, error |-> FALSE,
                  riskLevels |-> riskLevels,
                  optimalStopLoss |-> BestLevel(riskLevels),
                  klineRequests |-> KlineRequests(allTrades)]
       /\ UNCHANGED <<allTrades, posted, held, evicted>>
       /\ UNCHANGED svcVars

\* the worker receives the metrics of the rounds for one level and posts
\* the result (the model follows one message)
OnMessage(percentage) ==
    /\ ~posted.done
    /\ posted' = [done |-> TRUE,
                  result |-> ComputeForLevel(percentage,
                                             PreparedMetrics(allTrades))]
    /\ UNCHANGED <<allTrades, analysis, held, evicted>>
    /\ UNCHANGED svcVars

SimInit ==
    /\ ServiceInit
    /\ lenientDate = TRUE
    /\ allTrades \in TradeInputs
    /\ analysis = NoAnalysis
    /\ posted = NoResult
    /\ held = <<>>
    /\ evicted = NoEviction

SimNext ==
    \/ CalculateStopLoss
    \/ \E percentage \in WorkerLevels : OnMessage(percentage)

SimSpec == SimInit /\ [][SimNext]_vars

----------------------------------------------------------------------------
(* The analysis of the dialog on rounds one of which has a price or a      *)
(* quantity that is zero or not finite.  Such a round comes without bars   *)
(* here: on bars the arithmetic of the source would go on with NaN and     *)
(* Infinity, which the model's numbers do not have.                        *)

NoOpens == [openTradeIds |-> 1, opens |-> [ok |-> FALSE, data |-> <<>>]]

\* rounds with an entry price, an exit price or a quantity v
InvalidRounds(v) ==
    {[Round(side, 100, 0, Answer(<<>>), NoOpens) EXCEPT ![field] = v] :
       side \in {"LONG", "SHORT"},
       field \in {"avgEntryPrice", "avgExitPrice", "totalQuantity"}}

ValidRounds ==
    {Round(side, 100, fee, klines, NoOpens) :
       side \in {"LONG", "SHORT"}, fee \in {0, 1},
       klines \in {Answer(<<>>), Answer(<<Bar(1, 94, 101)>>),
                   Answer(<<Bar(1, 99, 106)>>)}}

SkipInputs ==
    LET invalid == UNION {InvalidRounds(v) : v \in {0, NaN, Infinity}}
    IN {<<WithId(r, 1)>> : r \in invalid}
       \cup {<<WithId(r, 1), WithId(c, 2)>> : r \in invalid, c \in ValidRounds}
       \cup {<<WithId(c, 1), WithId(r, 2)>> : r \in invalid, c \in ValidRounds}

SkipInit ==
    /\ ServiceInit
    /\ lenientDate = TRUE
    /\ allTrades \in SkipInputs
    /\ analysis = NoAnalysis
    /\ posted = NoResult
    /\ held = <<>>
    /\ evicted = NoEviction

SkipNext == CalculateStopLoss

SkipSpec == SkipInit /\ [][SkipNext]_vars

----------------------------------------------------------------------------
(* The analysis of the dialog on rounds with two open fills whose bars lie *)
(* at the edges of the time between the fills: a bar that opens with the   *)
(* first fill, one that closes with the second, one inside, one that opens *)
(* a millisecond before the first fill and one that closes a millisecond   *)
(* after the second.                                                       *)

EdgeTimes ==
    {<<T_OPEN, T_OPEN + MINUTE - 1>>,
     <<T_OPEN + MINUTE, T_SECOND>>,
     <<T_OPEN + MINUTE, T_SECOND - 1>>,
     <<T_OPEN - 1, T_OPEN + MINUTE - 2>>,
     <<T_OPEN + MINUTE + 1, T_SECOND + 1>>}

EdgeBars ==
    {[openTime |-> ToISOString(t[1]), closeTime |-> ToISOString(t[2]),
      low |-> s[1], high |-> s[2]] :
       t \in EdgeTimes, s \in {<<99, 101>>, <<94, 101>>, <<99, 106>>}}

EdgeRounds ==
    {Round(side, 100, 0, Answer(<<k>>),
           [openTradeIds |-> 2, opens |-> [ok |-> TRUE, data |-> Fills]]) :
       side \in {"LONG", "SHORT"}, k \in EdgeBars}

EdgeInputs ==
    {<<WithId(r, 1)>> : r \in EdgeRounds}
    \cup {<<WithId(r, 1), WithId(c, 2)>> : r \in EdgeRounds, c \in EdgeRounds}

EdgeInit ==
    /\ ServiceInit
    /\ lenientDate = TRUE
    /\ allTrades \in EdgeInputs
    /\ analysis = NoAnalysis
    /\ posted = NoResult
    /\ held = <<>>
    /\ evicted = NoEviction

EdgeNext == CalculateStopLoss

EdgeSpec == EdgeInit /\ [][EdgeNext]_vars

----------------------------------------------------------------------------
(* The timers.  Both timers have come due and the service holds two "1m"   *)
(* ranges the application has just loaded (getKlines of 01:00-01:30, then  *)
(* extendTimeRange to 02:00, which leaves the fetched segment and the      *)
(* merged range in the map); backend calls are counted from here on.  The  *)
(* application toggles offline mode and destroys the service while the     *)
(* timers run.                                                             *)

LoadedEntry(start, end) ==
    [key |-> GenerateCacheKey(SeriesOf("1m"), ToISOString(start),
                              ToISOString(end)),
     data |-> BackendBars(SeriesOf("1m"), ToISOString(start),
                          ToISOString(end)),
     cachedAt |-> T0 + CACHE_TTL_1M,
     startTime |-> ToISOString(start), endTime |-> ToISOString(end)]

LoadedRanges ==
    << LoadedEntry(P0 + 30 * MINUTE + 1, T0), LoadedEntry(P0, T0) >>

TimerInit ==
    /\ now = T0 + CACHE_TTL_1M
    /\ cache = LoadedRanges
    /\ inflightRequests = {}
    /\ fetches = {}
    /\ nFetch = 0
    /\ extCalls = {}
    /\ runs = {}
    /\ loads = {}
    /\ offlineMode = FALSE
    /\ cleanupInterval = TRUE
    /\ refreshInterval = TRUE
    /\ cleanupTimers = 1
    /\ refreshTimers = 1
    /\ cleanupDue = 1
    /\ refreshDue = RefreshesPerStep
    /\ nOps = 0
    /\ nAdmin = 0
    /\ nFail = 0
    /\ lastOp = Op("init", <<>>, NoTime, NoTime, "", <<>>, Cur, <<>>, NoHk)
    /\ lenientDate \in BOOLEAN
    /\ allTrades = <<>>
    /\ analysis = NoAnalysis
    /\ posted = NoResult
    /\ held = <<>>
    /\ evicted = NoEviction

TimerNext ==
    \/ \E f \in fetches : FetchOk(f)
    \/ \E f \in fetches : FetchFail(f)
    \/ RefreshTick
    \/ CleanupTick
    \/ Advance
    \/ DestroyWithin(MaxToggles)
    \/ \E enabled \in BOOLEAN : SetOfflineModeWithin(enabled, MaxToggles)

TimerSpec == TimerInit /\ [][TimerNext]_vars

----------------------------------------------------------------------------
(* Merging into an entry that holds bars beyond its declared range.  The   *)
(* application has loaded 01:30-02:00 with getKlines and has then called   *)
(* extendTimeRange for 01:00-01:30: the overlap search took the entry of   *)
(* 01:30-02:00, the head segment up to 01:29:59.999 was fetched and stored *)
(* under its own key (the housekeeping of that fetch evicted the entry of  *)
(* 01:30-02:00), and the merged bars of 01:00-02:00 were stored under the  *)
(* key of 01:00-01:30.  Backend calls are counted from here on, and the    *)
(* application also extends 01:30-02:00.                                   *)

SegmentEntry ==
    [key |-> GenerateCacheKey(SeriesOf("1m"), ToISOString(P0),
                              ToISOString(P1 - 1)),
     data |-> BackendBars(SeriesOf("1m"), ToISOString(P0),
                          ToISOString(P1 - 1)),
     cachedAt |-> T0,
     startTime |-> ToISOString(P0), endTime |-> ToISOString(P1 - 1)]

MergedEntry ==
    [key |-> GenerateCacheKey(SeriesOf("1m"), ToISOString(P0),
                              ToISOString(P1)),
     data |-> BackendBars(SeriesOf("1m"), ToISOString(P0), ToISOString(P2)),
     cachedAt |-> T0,
     startTime |-> ToISOString(P0), endTime |-> ToISOString(P1)]

MergeInit ==
    /\ now = T0
    /\ cache = <<SegmentEntry, MergedEntry>>
    /\ inflightRequests = {}
    /\ fetches = {}
    /\ nFetch = 0
    /\ extCalls = {}
    /\ runs = {}
    /\ loads = {}
    /\ offlineMode = FALSE
    /\ cleanupInterval = TRUE
    /\ refreshInterval = TRUE
    /\ cleanupTimers = 1
    /\ refreshTimers = 1
    /\ cleanupDue = 0
    /\ refreshDue = 0
    /\ nOps = 0
    /\ nAdmin = 0
    /\ nFail = 0
    /\ lastOp = Op("init", <<>>, NoTime, NoTime, "", <<>>, Cur, <<>>, NoHk)
    /\ lenientDate \in BOOLEAN
    /\ allTrades = <<>>
    /\ analysis = NoAnalysis
    /\ posted = NoResult
    /\ held = <<>>
    /\ evicted = NoEviction

MergeInputs == ExtendInputs \cup {<<"1m", P1, P2>>}

MergeNext ==
    \/ \E in \in GetInputs : GetKlines(in)
    \/ \E in \in MergeInputs : ExtendTimeRange(in)
    \/ \E f \in fetches : FetchOk(f)
    \/ \E f \in fetches : FetchFail(f)
    \/ RefreshTick
    \/ CleanupTick
    \/ Advance

MergeSpec == MergeInit /\ [][MergeNext]_vars

----------------------------------------------------------------------------
(* limitCacheSize on its own.  The housekeeping reads Date.now() anew in   *)
(* cleanExpiredCache and in limitCacheSize, and checkMemoryUsage calls     *)
(* limitCacheSize before cleanExpiredCache, so the map limitCacheSize      *)
(* finds may hold entries of any age.  An entry is described by its        *)
(* interval, its number of bars and its age; the map is built from the     *)
(* descriptions when the call is made.  limitCacheSize reads the key, the  *)
(* age and the length of data only: the bars of an entry all carry the     *)
(* same open time here, since two years in milliseconds exceed the 32-bit  *)
(* integers of the model.                                                  *)

\* the size of a long "1m" range: about two years of bars
MANY_BARS == 1100 * 1000

\* n bars
RECURSIVE BarsOfLength(_)
BarsOfLength(n) ==
    IF n = 0 THEN <<>>
    ELSE IF n % 2 = 0
         THEN LET half == BarsOfLength(n \div 2) IN half \o half
         ELSE Append(BarsOfLength(n - 1), P0)

ManyBars == BarsOfLength(MANY_BARS)

\* an entry younger and one older than the TTL of each interval, each with
\* one bar or with very many
HeldShapes ==
    [interval : {"1m"}, bars : {1, MANY_BARS},
     age : {4 * MINUTE, 6 * MINUTE}]
    \cup [interval : {"1h"}, bars : {1, MANY_BARS},
          age : {29 * MINUTE, 31 * MINUTE}]

HeldInputs ==
    UNION {[1..n -> HeldShapes] : n \in 1..3}

\* the CacheEntry at position i of the map
HeldEntry(d, i) ==
    LET startTime == ToISOString(P0 - i * MINUTE)
        endTime == ToISOString(P0 + i * MINUTE)
    IN [key |-> GenerateCacheKey(SeriesOf(d.interval), startTime, endTime),
        data |-> IF d.bars = MANY_BARS THEN ManyBars
                 ELSE BarsOfLength(d.bars),
        cachedAt |-> now - d.age,
        startTime |-> startTime, endTime |-> endTime]

\* the entries of the map d, each as its position in the map c (0 for an
\* entry that c does not hold as it is): the bars of a long entry are too
\* many to keep a second copy of the map in the state
Positions(c, d) ==
    [j \in 1..Len(d) |->
        IF \E i \in 1..Len(c) : c[i] = d[j]
        THEN CHOOSE i \in 1..Len(c) : c[i] = d[j]
        ELSE 0]

\* limitCacheSize runs on the map
LimitCacheSizeCall ==
    LET c == [i \in 1..Len(held) |-> HeldEntry(held[i], i)]
        kept == LimitCacheSize(c, MAX_CACHE_ENTRIES)
    IN /\ ~evicted.done
       /\ evicted' =
            [done |-> TRUE,
             at |-> {i \in 1..Len(c) :
                      \A j \in 1..Len(kept) : kept[j].key # c[i].key},
             left |-> Positions(c, kept)]
       /\ UNCHANGED <<allTrades, analysis, posted, held>>
       /\ UNCHANGED svcVars

EvictInit ==
    /\ ServiceInit
    /\ lenientDate = TRUE
    /\ allTrades = <<>>
    /\ analysis = NoAnalysis
    /\ posted = NoResult
    /\ held \in HeldInputs
    /\ evicted = NoEviction

EvictNext == LimitCacheSizeCall

EvictSpec == EvictInit /\ [][EvictNext]_vars

----------------------------------------------------------------------------
(* cleanExpiredCache on its own, and then on the ticks of the cleanup      *)
(* timer.  The map it finds is built from descriptions of its entries:     *)
(* ages below, at and above the TTL of each interval, up to three entries  *)
(* with a limit of MAX_CACHE_ENTRIES.                                      *)

SweptShapes ==
    [interval : {"1m"}, bars : {1},
     age : {0, CACHE_TTL_1M - 1, CACHE_TTL_1M, CACHE_TTL_1M + 1}]
    \cup [interval : {"1h"}, bars : {1},
          age : {CACHE_TTL_1M + 1, CACHE_TTL_OTHER, CACHE_TTL_OTHER + 1}]

SweptInputs ==
    UNION {[1..n -> SweptShapes] : n \in 1..3}

\* cleanExpiredCache runs on the map
CleanExpiredCacheCall ==
    LET c == [i \in 1..Len(held) |-> HeldEntry(held[i], i)]
        kept == CleanExpiredCache(c)
    IN /\ ~evicted.done
       /\ evicted' =
            [done |-> TRUE,
             at |-> {i \in 1..Len(c) :
                      \A j \in 1..Len(kept) : kept[j].key # c[i].key}]
       /\ cache' = kept
       /\ lastOp' = Op("cleanExpiredCache", <<>>, NoTime, NoTime, "", <<>>,
                       Cur, <<>>, NoHk)
       /\ UNCHANGED <<allTrades, analysis, posted, held>>
       /\ UNCHANGED <<now, inflightRequests, fetches, nFetch, extCalls, runs,
                      loads, offlineMode, cleanupInterval, refreshInterval,
                      cleanupTimers, refreshTimers, cleanupDue, refreshDue,
                      lenientDate, nOps, nAdmin, nFail>>

SweepInit ==
    /\ ServiceInit
    /\ lenientDate = TRUE
    /\ allTrades = <<>>
    /\ analysis = NoAnalysis
    /\ posted = NoResult
    /\ held \in SweptInputs
    /\ evicted = NoEviction

SweepNext ==
    \/ CleanExpiredCacheCall
    \/ Advance
    \/ CleanupTick

SweepSpec == SweepInit /\ [][SweepNext]_vars

----------------------------------------------------------------------------
(* The callback of the cleanup timer on its own: cleanExpiredCache, then   *)
(* limitCacheSize, then checkMemoryUsage.  The map the callback finds is   *)
(* built from descriptions of its entries, with bar counts on both sides   *)
(* of the 100 MB estimate: 524288 bars are exactly 100 MB, 524314 bars are *)
(* the most that toFixed(2) still prints as "100.00".                      *)

MB_BARS == 524288
ROUNDED_DOWN_BARS == 524314

MemoryShapes ==
    [interval : {"1m"},
     bars : {1, MB_BARS, MB_BARS + 1, ROUNDED_DOWN_BARS, ROUNDED_DOWN_BARS + 1},
     age : {4 * MINUTE, 6 * MINUTE}]

MemoryInputs ==
    UNION {[1..n -> MemoryShapes] : n \in 1..2}

\* the cleanup timer fires on the map
CheckMemoryUsageCall ==
    LET c == [i \in 1..Len(held) |-> HeldEntry(held[i], i)]
        found == LimitCacheSize(CleanExpiredCache(c), MAX_CACHE_ENTRIES)
        r == CheckMemoryUsageFrom(found, MAX_CACHE_ENTRIES)
    IN /\ ~evicted.done
       /\ evicted' = [done |-> TRUE,
                      at |-> {i \in 1..Len(c) :
                               \A j \in 1..Len(r.cache) :
                                   r.cache[j].key # c[i].key},
                      found |-> Positions(c, found),
                      left |-> Positions(c, r.cache),
                      limit |-> r.limit]
       /\ UNCHANGED <<allTrades, analysis, posted, held>>
       /\ UNCHANGED svcVars

MemoryInit ==
    /\ ServiceInit
    /\ lenientDate = TRUE
    /\ allTrades = <<>>
    /\ analysis = NoAnalysis
    /\ posted = NoResult
    /\ held \in MemoryInputs
    /\ evicted = NoEviction

MemoryNext == CheckMemoryUsageCall

MemorySpec == MemoryInit /\ [][MemoryNext]_vars

----------------------------------------------------------------------------
(* Properties.  They are stated on what a step did (lastOp) and, where a  *)
(* claim speaks of the state a call is made in, on the step itself.        *)

\* the cache c holds a valid entry of the series whose range contains
\* [startTime, endTime], written out from the definitions of the claim
ContainingValid(c, series, startTime, endTime) ==
    \E i \in 1..Len(c) :
        /\ SubSeq(c[i].key, 1, 4) = series
        /\ now - c[i].cachedAt < Ttl(series[4])
        /\ Le(DateParse(c[i].startTime), DateParse(startTime))
        /\ Ge(DateParse(c[i].endTime), DateParse(endTime))

\* C1 (containment): a getKlines call made while the cache holds an entry
\* of the same series that contains the requested range and is younger
\* than its TTL makes no backend call.
C1_Containment ==
    [][(/\ lastOp'.op = "getKlines"
        /\ ContainingValid(cache, lastOp'.series, lastOp'.startTime,
                           lastOp'.endTime))
       => (nFetch' = nFetch /\ lastOp'.issued = {}
           /\ lastOp'.path = "hit")]_vars

\* a getKlines call for a range strictly inside that of the entry it was
\* served from
C1_Witness ==
    /\ lastOp.op = "getKlines"
    /\ lastOp.path = "hit"
    /\ lastOp.issued = {}
    /\ \E e \in lastOp.used : e.endTime # lastOp.endTime

\* C2 (dedup, as stated): a getKlines call made online while no valid
\* containing entry is cached and a fetch of the identical key is still
\* outstanding makes no further backend call.
C2_Dedup ==
    [][(/\ lastOp'.op = "getKlines"
        /\ ~offlineMode
        /\ ~ContainingValid(cache, lastOp'.series, lastOp'.startTime,
                            lastOp'.endTime)
        /\ \E f \in fetches :
              f.key = GenerateCacheKey(lastOp'.series, lastOp'.startTime,
                                       lastOp'.endTime))
       => nFetch' = nFetch]_vars

C4_TtlExpiry ==
    \A e \in lastOp.used :
        IF KeyPart(e.key, 3) = "1m"
        THEN now - e.cachedAt < 5 * MINUTE
        ELSE now - e.cachedAt < 30 * MINUTE

\* getKlines went to the backend although an entry of the series contains
\* the range, that entry being exactly 30 minutes old ("1h")
C4_Witness ==
    /\ lastOp.op = "getKlines"
    /\ lastOp.path = "fetch"
    /\ lastOp.series[4] = "1h"
    /\ \E i \in 1..Len(cache) :
          /\ SubSeq(cache[i].key, 1, 4) = lastOp.series
          /\ Le(DateParse(cache[i].startTime), DateParse(lastOp.startTime))
          /\ Ge(DateParse(cache[i].endTime), DateParse(lastOp.endTime))
          /\ now - cache[i].cachedAt = 30 * MINUTE

\* C5 (eviction bound): when getKlines has inserted the fetched entry and
\* run cleanExpiredCache and limitCacheSize, the cache holds at most
\* MAX_CACHE_ENTRIES entries.
C5_EvictionBound ==
    lastOp.hk.done => Len(lastOp.hk.cache) <= MAX_CACHE_ENTRIES

\* the insertion took the cache over the bound and limitCacheSize evicted
C5_Witness ==
    /\ lastOp.hk.done
    /\ lastOp.hk.before > MAX_CACHE_ENTRIES
    /\ Len(lastOp.hk.cache) = MAX_CACHE_ENTRIES

\* C6 (failed fetch, as stated): when the backend call behind getKlines
\* fails, the caller and every waiter on the key receive an empty sequence
\* of bars rather than an error, and the cache is left as it was.
C6_FailedFetchIsEmpty ==
    [][lastOp'.op = "fetchFail"
       => /\ \A d \in lastOp'.delivered :
                d.to = "getKlines" => (d.status = "ok" /\ d.data = <<>>)
          /\ cache' = cache]_vars

\* the entry getKlines stores for the fetch a fetchOk step has settled
FetchedEntry ==
    [key |-> GenerateCacheKey(lastOp.series, lastOp.startTime,
                              lastOp.endTime),
     data |-> lastOp.data, cachedAt |-> now,
     startTime |-> lastOp.startTime, endTime |-> lastOp.endTime]

\* C7 (as stated): after a successful fetch by getKlines and the
\* housekeeping that follows, the cache holds, under the requested key, the
\* entry with the fetched bars, the requested range and cachedAt = the time
\* of completion.
C7_EntryStored ==
    lastOp.hk.done
    => \E i \in 1..Len(lastOp.hk.cache) : lastOp.hk.cache[i] = FetchedEntry

\* C7 (amended): after a successful fetch by getKlines and the housekeeping
\* that follows, at most one entry is held under the requested key and it
\* is the entry with the fetched bars, the requested range and cachedAt =
\* the time of completion; the key is absent only if the insertion took the
\* cache over MAX_CACHE_ENTRIES and limitCacheSize evicted the new entry.
C7_EntryStoredUnlessEvicted ==
    lastOp.hk.done
    => LET c == lastOp.hk.cache
           at == {i \in 1..Len(c) : c[i].key = FetchedEntry.key}
       IN /\ Cardinality(at) <= 1
          /\ \A i \in at : c[i] = FetchedEntry
          /\ at = {} => lastOp.hk.before > MAX_CACHE_ENTRIES

\* the insertion took the cache over the bound, an older entry was evicted
\* and the new entry stayed
C7_Witness ==
    /\ lastOp.hk.done
    /\ lastOp.hk.before > MAX_CACHE_ENTRIES
    /\ \E i \in 1..Len(lastOp.hk.cache) : lastOp.hk.cache[i] = FetchedEntry

\* the segments extendTimeRange has to ask for, given the entry it found
MissingSegments(inv) ==
    (IF Lt(DateParse(inv.newStartTime), inv.existingStart)
     THEN << <<inv.newStartTime, ToISOString(inv.existingStart - 1)>> >>
     ELSE <<>>)
    \o
    (IF Gt(DateParse(inv.newEndTime), inv.existingEnd)
     THEN << <<ToISOString(inv.existingEnd + 1), inv.newEndTime>> >>
     ELSE <<>>)

\* C8 (as stated): an extendTimeRange call made online that finds a valid
\* overlapping entry issues a backend fetch for [newStart, existingStart-1]
\* iff newStart < existingStart and for [existingEnd+1, newEnd] iff
\* newEnd > existingEnd, and no other.
C8_FetchesMissingSegments ==
    (/\ lastOp.op = "extendTimeRange"
     /\ ~lastOp.offline
     /\ lastOp.invoked[1].found)
    => {<<f.startTime, f.endTime>> : f \in lastOp.issued}
       = {MissingSegments(lastOp.invoked[1])[i] :
            i \in 1..Len(MissingSegments(lastOp.invoked[1]))}

\* C8 (amended): an extendTimeRange call made online that finds a valid
\* overlapping entry asks getKlines for [newStart, existingStart-1] iff
\* newStart < existingStart and for [existingEnd+1, newEnd] iff
\* newEnd > existingEnd, and for nothing else; neither range holds an
\* instant of the existing entry; a segment is fetched from the backend
\* iff no valid entry of the series contains it and no fetch of its key is
\* outstanding, and then with exactly that range.
C8_RequestsMissingSegments ==
    [][\A k \in 1..Len(lastOp'.invoked) :
          LET inv == lastOp'.invoked[k]
              reqs == inv.reqs
          IN (inv.found /\ ~offlineMode)
             => /\ [i \in 1..Len(reqs) |->
                       <<reqs[i].startTime, reqs[i].endTime>>]
                   = MissingSegments(inv)
                /\ \A i \in 1..Len(reqs) :
                      /\ \/ Lt(DateParse(reqs[i].endTime), inv.existingStart)
                         \/ Gt(DateParse(reqs[i].startTime), inv.existingEnd)
                      /\ reqs[i].path \in {"hit", "wait", "fetch"}
                      /\ reqs[i].path = "fetch"
                         => \E f \in lastOp'.issued :
                               /\ f.fid = reqs[i].fid
                               /\ f.series = inv.series
                               /\ f.startTime = reqs[i].startTime
                               /\ f.endTime = reqs[i].endTime
                      /\ lastOp'.op = "extendTimeRange"
                         => (reqs[i].path = "fetch"
                             <=> /\ ~ContainingValid(cache, inv.series,
                                        reqs[i].startTime, reqs[i].endTime)
                                 /\ ~ \E r \in inflightRequests :
                                        r.key = GenerateCacheKey(inv.series,
                                            reqs[i].startTime,
                                            reqs[i].endTime))
                /\ lastOp'.op = "extendTimeRange"
                   => Cardinality(lastOp'.issued)
                      = Cardinality({i \in 1..Len(reqs) :
                                        reqs[i].path = "fetch"})]_vars

\* the cache held [t0, t1], the call asked for [t0, t2] with t1 < t2, and
\* exactly one fetch, of [t1 + 1, t2], was issued
C8_Witness ==
    /\ lastOp.op = "extendTimeRange"
    /\ ~lastOp.offline
    /\ lastOp.invoked[1].found
    /\ lastOp.invoked[1].existingStart = DateParse(lastOp.startTime)
    /\ Lt(lastOp.invoked[1].existingEnd, DateParse(lastOp.endTime))
    /\ \E f \in lastOp.issued :
          /\ lastOp.issued = {f}
          /\ f.startTime = ToISOString(lastOp.invoked[1].existingEnd + 1)
          /\ f.endTime = lastOp.endTime

\* C9 (as stated): an extendTimeRange call made online while no valid entry
\* of the series overlaps the new range issues a backend fetch for
\* [newStart, newEnd].
C9_FreshFetch ==
    (/\ lastOp.op = "extendTimeRange"
     /\ ~lastOp.offline
     /\ ~lastOp.invoked[1].found)
    => \E f \in lastOp.issued :
          /\ f.series = lastOp.series
          /\ f.startTime = lastOp.startTime
          /\ f.endTime = lastOp.endTime

\* C10 (as stated): a refresh tick invokes extendTimeRange, for every "1m"
\* entry whose endTime is later than now - 1 hour, with the series of the
\* entry, newStartTime = the startTime stored in the entry and
\* newEndTime = now.
C10_RefreshExtendsFromEntryStart ==
    lastOp.op = "refreshTick"
    => \A j \in 1..Len(lastOp.toRefresh) :
          \E k \in 1..Len(lastOp.invoked) :
             /\ lastOp.invoked[k].series = lastOp.toRefresh[j].series
             /\ lastOp.invoked[k].newStartTime
                = lastOp.toRefresh[j].entryStart
             /\ lastOp.invoked[k].newEndTime = ToISOString(now)

\* C11 (as claimed): while preloadKlines or warmupCache runs, the backend
\* fetches it started that are still outstanding never exceed its batch
\* size, so that a batch starts only after the previous one has completed.
C11_BatchedFetches ==
    \A l \in loads :
        Cardinality({f \in fetches : f.fid \in l.own}) <= l.batchSize

\* the details a level result lists
Details(level) ==
    {level.profitTradeDetails[i] : i \in 1..Len(level.profitTradeDetails)}
    \cup {level.lossTradeDetails[i] : i \in 1..Len(level.lossTradeDetails)}

\* the round a detail belongs to
TradeOf(detail) ==
    CHOOSE i \in 1..Len(allTrades) : allTrades[i].roundId = detail.roundId

\* C12 (as claimed): every TradeDetail of the sentinel level ("no stop",
\* -999, reported as percentage 0) has wouldHitStopLoss = false and the
\* real exit price of its round as finalPrice, for long and short rounds,
\* any bars and any number of open fills.
C12_SentinelNeverStops ==
    /\ (analysis.done /\ ~analysis.error)
          => \A d \in Details(analysis.riskLevels[1]) :
                /\ ~d.wouldHitStopLoss
                /\ d.finalPrice
                     = allTrades[TradeOf(d)].avgExitPrice * THOUSAND
    /\ (posted.done /\ posted.result.percentage = 0)
          => \A d \in Details(posted.result) :
                /\ ~d.wouldHitStopLoss
                /\ d.finalPrice
                     = allTrades[TradeOf(d)].avgExitPrice * THOUSAND

\* the rounds the analysis counts: entry price, exit price and quantity are
\* not zero
Counted(t) ==
    t.avgEntryPrice # 0 /\ t.avgExitPrice # 0 /\ t.totalQuantity # 0

\* the bars a round has
BarsOf(t) ==
    IF t.klines.ok /\ t.klines.array THEN t.klines.data ELSE <<>>

\* the first two open fills of a round are known
FillsKnown(t) ==
    t.openTradeIds >= 2 /\ t.opens.ok /\ Len(t.opens.data) >= 2

\* level p stops the first fill of the round t before its second fill: a
\* bar between the two fills has a low at or below (long), a high at or
\* above (short) the stop price of the first fill
EarlyStopped(t, p) ==
    /\ FillsKnown(t)
    /\ \E i \in 1..Len(BarsOf(t)) :
          LET k == BarsOf(t)[i]
              first == SortByTimestamp(t.opens.data)[1]
              second == SortByTimestamp(t.opens.data)[2]
          IN /\ k.openTime.v >= first.timestamp.v
             /\ k.closeTime.v <= second.timestamp.v
             /\ IF t.positionSide = "LONG"
                THEN k.low * 1000 <= first.price * (1000 + p)
                ELSE k.high * 1000 >= first.price * (1000 - p)

\* the maximum adverse excursion of the round t is at most p tenths of a
\* percent of its entry price
ExcursionReaches(t, p) ==
    \E i \in 1..Len(BarsOf(t)) :
        IF t.positionSide = "LONG"
        THEN (BarsOf(t)[i].low - t.avgEntryPrice) * 1000
                 <= p * t.avgEntryPrice
        ELSE (t.avgEntryPrice - BarsOf(t)[i].high) * 1000
                 <= p * t.avgEntryPrice

\* C13: single-path rule.  For a counted round with bars that is not
\* stopped early, at a level p < 0, wouldHitStopLoss holds exactly when
\* the maximum adverse excursion over the bars of the round is at most p;
\* then the final price is the stop price entry * (1 + p / 100) (long) or
\* entry * (1 - p / 100) (short), otherwise it is the real exit price.
C13_SinglePath ==
    (analysis.done /\ ~analysis.error)
      => \A l \in 2..Len(stopLossLevels) : \A n \in 1..Len(allTrades) :
            LET p == stopLossLevels[l]
                t == allTrades[n]
            IN (Counted(t) /\ BarsOf(t) # <<>> /\ ~EarlyStopped(t, p))
                 => \E d \in Details(analysis.riskLevels[l]) :
                       /\ d.roundId = t.roundId
                       /\ d.wouldHitStopLoss <=> ExcursionReaches(t, p)
                       /\ d.finalPrice
                            = IF ~ExcursionReaches(t, p)
                              THEN t.avgExitPrice * 1000
                              ELSE IF t.positionSide = "LONG"
                              THEN t.avgEntryPrice * (1000 + p)
                              ELSE t.avgEntryPrice * (1000 - p)

\* a long round entered at 100 whose bars dip to 94 is stopped at 95 by
\* the level -5%, with a pnl of -5 per unit
C13_Witness ==
    /\ analysis.done
    /\ ~analysis.error
    /\ \E l \in 2..Len(stopLossLevels) :
          /\ stopLossLevels[l] = -50
          /\ \E d \in Details(analysis.riskLevels[l]) :
                LET t == allTrades[TradeOf(d)]
                IN /\ t.positionSide = "LONG"
                   /\ t.avgEntryPrice = 100
                   /\ ~EarlyStopped(t, -50)
                   /\ \E i \in 1..Len(BarsOf(t)) : BarsOf(t)[i].low = 94
                   /\ d.wouldHitStopLoss
                   /\ d.finalPrice = 95 * 1000
                   /\ d.pnlAmount = -5 * 1000 * t.totalQuantity

\* C14: early stop of a round with several open fills.  When a bar
\* between the first and the second open fill reaches the stop price
\* computed from the price of the first fill and the level p, the round
\* exits at that stop price with the quantity of the first fill only,
\* whatever the later bars are and whatever the single-path rule gives.
C14_EarlyStopFirst ==
    (analysis.done /\ ~analysis.error)
      => \A l \in 1..Len(stopLossLevels) : \A n \in 1..Len(allTrades) :
            LET p == stopLossLevels[l]
                t == allTrades[n]
                first == SortByTimestamp(t.opens.data)[1]
            IN (Counted(t) /\ EarlyStopped(t, p))
                 => \E d \in Details(analysis.riskLevels[l]) :
                       /\ d.roundId = t.roundId
                       /\ d.wouldHitStopLoss
                       /\ d.finalPrice
                            = IF t.positionSide = "LONG"
                              THEN first.price * (1000 + p)
                              ELSE first.price * (1000 - p)
                       /\ d.quantity = first.quantity
                       /\ d.pnlAmount = (p * first.price) * first.quantity

\* a round of two fills is stopped at the stop price of its first fill,
\* which differs from the stop price of its average entry, both when the
\* single-path rule would stop it as well and when the later bars are quiet
C14_Witness ==
    /\ analysis.done
    /\ ~analysis.error
    /\ \E l \in 2..Len(stopLossLevels) : \E n \in 1..Len(allTrades) :
          LET p == stopLossLevels[l]
              t == allTrades[n]
              first == SortByTimestamp(t.opens.data)[1]
          IN /\ Counted(t)
             /\ EarlyStopped(t, p)
             /\ Len(BarsOf(t)) = 2
             /\ first.price # t.avgEntryPrice
             /\ first.quantity # t.totalQuantity
             /\ ~ExcursionReaches(t, p)
             /\ \E d \in Details(analysis.riskLevels[l]) :
                   /\ d.roundId = t.roundId
                   /\ d.wouldHitStopLoss
                   /\ d.quantity = first.quantity

\* C15 (as claimed): no-bar fallback.  At every level, the sentinel
\* included, a counted round for which no bars are available contributes
\* its real realized pnl as pnlAmount, its real exit price as finalPrice
\* and wouldHitStopLoss = false, in the dialog and in the worker.
C15_NoBarFallback ==
    /\ (analysis.done /\ ~analysis.error)
         => \A l \in 1..Len(stopLossLevels) : \A n \in 1..Len(allTrades) :
               LET t == allTrades[n]
               IN (Counted(t) /\ BarsOf(t) = <<>> /\ ~t.realizedPnlNull)
                    => \E d \in Details(analysis.riskLevels[l]) :
                          /\ d.roundId = t.roundId
                          /\ d.pnlAmount = t.realizedPnl * 1000
                          /\ d.finalPrice = t.avgExitPrice * 1000
                          /\ ~d.wouldHitStopLoss
    /\ posted.done
         => \A n \in 1..Len(allTrades) :
               LET t == allTrades[n]
               IN (Counted(t) /\ BarsOf(t) = <<>> /\ ~t.realizedPnlNull)
                    => \E d \in Details(posted.result) :
                          /\ d.roundId = t.roundId
                          /\ d.pnlAmount = t.realizedPnl * 1000
                          /\ d.finalPrice = t.avgExitPrice * 1000
                          /\ ~d.wouldHitStopLoss

\* C16: optimal selection.  The total net profit of the optimal level is
\* the maximum of the total net profits of all computed levels, and when
\* several levels reach the maximum the optimal level is the earliest of
\* them in the list of levels, which starts with the sentinel.
C16_OptimalSelection ==
    (analysis.done /\ ~analysis.error)
      => \E m \in 1..Len(analysis.riskLevels) :
            /\ \A j \in 1..Len(analysis.riskLevels) :
                  analysis.riskLevels[j].totalProfit
                      <= analysis.riskLevels[m].totalProfit
            /\ \A j \in 1..(m - 1) :
                  analysis.riskLevels[j].totalProfit
                      < analysis.riskLevels[m].totalProfit
            /\ analysis.optimalStopLoss = analysis.riskLevels[m]

\* an analysis whose optimal level is not the sentinel, with later levels
\* that are worse and two levels that tie below the maximum
C16_Witness ==
    /\ analysis.done
    /\ ~analysis.error
    /\ analysis.optimalStopLoss.percentage # 0
    /\ analysis.optimalStopLoss.totalProfit
          > analysis.riskLevels[1].totalProfit
    /\ \E j \in 2..Len(analysis.riskLevels) :
          /\ analysis.riskLevels[j].totalProfit
                < analysis.optimalStopLoss.totalProfit
          /\ analysis.riskLevels[j].totalProfit
                = analysis.riskLevels[1].totalProfit

\* C17 (as claimed): failure isolation.  The analysis ends without an
\* error whenever there are rounds, every level counts every round with
\* non-zero entry price, exit price and quantity exactly once, so that
\* totalTrades is the same at every level, and a round whose processing
\* raises an error is counted with its real realized pnl and
\* wouldHitStopLoss = false.
C17_FailureIsolation ==
    analysis.done
      => /\ analysis.error <=> allTrades = <<>>
         /\ \A l \in 1..Len(analysis.riskLevels) :
               /\ analysis.riskLevels[l].totalTrades
                    = Cardinality({n \in 1..Len(allTrades) :
                                     Counted(allTrades[n])})
               /\ \A n \in 1..Len(allTrades) :
                     LET t == allTrades[n]
                     IN (Counted(t) /\ t.klines.ok /\ ~t.klines.array)
                          => \E d \in Details(analysis.riskLevels[l]) :
                                /\ d.roundId = t.roundId
                                /\ d.pnlAmount = t.realizedPnl * 1000
                                /\ ~d.wouldHitStopLoss

\* the score of limitCacheSize times 60000, from the description of an
\* entry: 1000 if expired, plus bars / 1000, plus the age in minutes
HeldExpired(d) ==
    d.age > (IF d.interval = "1m" THEN 5 * MINUTE ELSE 30 * MINUTE)

HeldScore(d) ==
    (IF HeldExpired(d) THEN 1000 * 60000 ELSE 0) + d.bars * 60 + d.age

\* among non-expired entries, one with at least as many bars and at least
\* the age of an evicted one, and more of either, is evicted too
FreshOrder ==
    \A i, j \in 1..Len(held) :
        /\ ~HeldExpired(held[i]) /\ ~HeldExpired(held[j])
        /\ held[i].bars >= held[j].bars /\ held[i].age >= held[j].age
        /\ held[i].bars > held[j].bars \/ held[i].age > held[j].age
        /\ j \in evicted.at
        => i \in evicted.at

\* C18 (as stated): whenever limitCacheSize evicts, every expired entry is
\* evicted before any non-expired entry, for all entry sizes and ages, and
\* among non-expired entries those with more bars and greater age go first.
C18_ExpiredAlwaysFirst ==
    evicted.done =>
        /\ \A i, j \in 1..Len(held) :
              /\ HeldExpired(held[i]) /\ ~HeldExpired(held[j])
              /\ j \in evicted.at
              => i \in evicted.at
        /\ FreshOrder

\* C18 (amended): limitCacheSize deletes size - M entries, none of a lower
\* score than an entry it keeps (score = 1000 if expired + bars / 1000 + age
\* in minutes); hence an expired entry is evicted before every non-expired
\* entry of at most 970000 bars, and among non-expired entries those with
\* more bars and greater age go first.
C18_ScoreOrder ==
    evicted.done =>
        /\ Cardinality(evicted.at) =
              (IF Len(held) > MAX_CACHE_ENTRIES
               THEN Len(held) - MAX_CACHE_ENTRIES ELSE 0)
        /\ \A i \in evicted.at : \A j \in (1..Len(held)) \ evicted.at :
              HeldScore(held[i]) >= HeldScore(held[j])
        /\ \A i, j \in 1..Len(held) :
              /\ HeldExpired(held[i]) /\ ~HeldExpired(held[j])
              /\ held[j].bars <= 970000
              /\ j \in evicted.at
              => i \in evicted.at
        /\ FreshOrder

\* an eviction that deletes an expired entry and keeps a non-expired one, and
\* deletes one of two non-expired entries
C18_Witness ==
    /\ evicted.done
    /\ \E i \in evicted.at : \E j \in (1..Len(held)) \ evicted.at :
          HeldExpired(held[i]) /\ ~HeldExpired(held[j])

\* C19 (as stated): the eviction housekeeping runs after every cache
\* insertion, that of extendTimeRange included, so whenever no cache
\* operation is mid-execution (no backend call outstanding, no
\* extendTimeRange call and no refresh run suspended) the cache holds at
\* most MAX_CACHE_ENTRIES entries.
C19_BoundedWhenIdle ==
    (fetches = {} /\ extCalls = {} /\ runs = {} /\ loads = {})
        => Len(cache) <= MAX_CACHE_ENTRIES

\* a step in which a refresh run has issued a backend call: the timer
\* callback itself, or a settled request that lets a run go on to its next
\* batch
RefreshFetchIssued ==
    /\ lastOp.op \in {"refreshTick", "fetchOk", "fetchFail"}
    /\ lastOp.issued # {}

WarmedKey(w, interval) ==
    LET opens == {w.trades[k].openTime : k \in 1..Len(w.trades)}
        closes == {w.trades[k].closeTime : k \in 1..Len(w.trades)}
    IN GenerateCacheKey(
           SeriesOf(interval),
           ToISOString(CHOOSE a \in opens : \A b \in opens : a <= b),
           ToISOString(CHOOSE a \in closes : \A b \in closes : a >= b))

\* the cache holds the entry warmed for w and the interval, not expired
Warmed(w, interval) ==
    \E i \in 1..Len(cache) :
        /\ cache[i].key = WarmedKey(w, interval)
        /\ now - cache[i].cachedAt
             < (IF interval = "1m" THEN 5 * MINUTE ELSE 30 * MINUTE)

\* C21: a getKlinesForRound call for a trade of a warmed list and a warmed
\* interval, made while the warmed entry is in the cache and has not
\* expired, is answered from the cache with no backend call; warmupCache
\* asks the backend at most once per interval, for the key from the earliest
\* openTime to the latest closeTime of the symbol's trades, and leaves each
\* such key either served by the cache or in flight.
C21_WarmedRoundsHit ==
    /\ lastOp.op = "getKlinesForRound" =>
          \A w \in WarmupInputs :
              /\ \E k \in 1..Len(w.intervals) :
                    w.intervals[k] = lastOp.series[4]
              /\ \E k \in 1..Len(w.trades) :
                    /\ ToISOString(w.trades[k].openTime) = lastOp.startTime
                    /\ ToISOString(w.trades[k].closeTime) = lastOp.endTime
              /\ Warmed(w, lastOp.series[4])
              => lastOp.path = "hit" /\ lastOp.issued = {}
    /\ lastOp.op = "warmupCache" =>
          LET w == lastOp.data[1]
              keys == {WarmedKey(w, w.intervals[k]) :
                         k \in 1..Len(w.intervals)}
          IN /\ \A f \in lastOp.issued : f.key \in keys
             /\ \A f, g \in lastOp.issued : f.key = g.key => f = g
             /\ \A key \in keys :
                   \/ \E r \in inflightRequests : r.key = key
                   \/ \E e \in lastOp.used :
                         SubSeq(e.key, 1, 4) = SubSeq(key, 1, 4)

\* warmupCache has completed without a failure, and a getKlinesForRound call
\* for one of its trades, whose range is a part of the warmed range, has
\* been answered from the warmed entry
C21_Witness ==
    /\ lastOp.op = "getKlinesForRound"
    /\ lastOp.path = "hit"
    /\ lastOp.issued = {}
    /\ nFail = 0 /\ loads = {} /\ fetches = {}
    /\ \E w \in WarmupInputs :
          /\ Warmed(w, lastOp.series[4])
          /\ \E e \in lastOp.used :
                /\ e.key = WarmedKey(w, lastOp.series[4])
                /\ e.key # GenerateCacheKey(lastOp.series, lastOp.startTime,
                                            lastOp.endTime)

\* C22: during one analysis the bars of every round of the answer are asked
\* of the backend exactly once (so at most once per roundId), whatever the
\* number of levels and whether the request succeeds or fails; a round whose
\* request failed falls back at every level.
C22_BarsRequestedOnce ==
    (analysis.done /\ ~analysis.error) =>
        /\ \A k \in 1..Len(allTrades) :
              Cardinality({i \in 1..Len(analysis.klineRequests) :
                             analysis.klineRequests[i] = allTrades[k].roundId})
                = 1
        /\ \A k \in 1..Len(allTrades) :
              (/\ ~allTrades[k].klines.ok
               /\ allTrades[k].avgEntryPrice # 0
               /\ ~allTrades[k].realizedPnlNull)
              => \A j \in 1..Len(analysis.riskLevels) :
                    \E d \in Details(analysis.riskLevels[j]) :
                        /\ d.roundId = allTrades[k].roundId
                        /\ ~d.wouldHitStopLoss
                        /\ d.finalPrice = allTrades[k].avgExitPrice * THOUSAND

\* an analysis of several levels over two rounds, the request of the first
\* of which has failed
C22_Witness ==
    /\ analysis.done /\ ~analysis.error
    /\ Len(analysis.riskLevels) > 1
    /\ Len(allTrades) = 2
    /\ ~allTrades[1].klines.ok
    /\ Len(analysis.klineRequests) = 2

\* the sum of the amounts of a list of details, in thousandths
RECURSIVE SumAmounts(_)
SumAmounts(details) ==
    IF details = <<>> THEN 0
    ELSE (IF Head(details).pnlAmount < 0 THEN -Head(details).pnlAmount
          ELSE Head(details).pnlAmount) + SumAmounts(Tail(details))

\* v units is a closest whole number of units to num / den
Closest(v, num, den) ==
    /\ 2 * (v * den - num) <= den
    /\ 2 * (num - v * den) <= den

\* the aggregates of a level result r are the quotients of its counts and
\* of the sums of its details, at the precision of the result, and 0 when
\* the denominator is 0
AggregatesOf(r) ==
    LET gained == SumAmounts(r.profitTradeDetails)
        lost == SumAmounts(r.lossTradeDetails)
    IN /\ IF r.totalTrades = 0 THEN r.winRate = 0
          ELSE Closest(r.winRate, r.profitTrades * 1000, r.totalTrades)
       /\ IF r.profitTrades = 0 THEN r.avgProfit = 0
          ELSE Closest(r.avgProfit, gained, 10 * r.profitTrades)
       /\ IF r.lossTrades = 0 THEN r.avgLoss = 0
          ELSE Closest(r.avgLoss, lost, 10 * r.lossTrades)
       /\ IF r.lossTrades = 0 \/ lost = 0 THEN r.profitFactor = 0
          ELSE IF r.profitTrades = 0 THEN r.profitFactor = 0
          ELSE Closest(r.profitFactor, 100 * gained * r.lossTrades,
                       r.profitTrades * lost)
       /\ r.totalTrades = 0 =>
             r.avgProfit = 0 /\ r.avgLoss = 0 /\ r.profitFactor = 0

\* C23: the aggregates of every level, of the dialog and of the worker:
\* winRate is profitTrades / totalTrades in percent, avgProfit is
\* totalProfitAmount / profitTrades, avgLoss is totalLossAmount / lossTrades
\* and profitFactor is avgProfit / avgLoss, each reported at the precision
\* of the result (one decimal for winRate, two for the others) and each 0
\* when its denominator is 0; all are 0 for a level that counts no round.
C23_Aggregates ==
    /\ (analysis.done /\ ~analysis.error) =>
          \A j \in 1..Len(analysis.riskLevels) :
              AggregatesOf(analysis.riskLevels[j])
    /\ posted.done => AggregatesOf(posted.result)

\* an analysis with a level that counts a winning and a losing round and
\* has a profit factor, and a level with a winning round and no losing one
C23_Witness ==
    /\ analysis.done /\ ~analysis.error
    /\ \E j \in 1..Len(analysis.riskLevels) :
          /\ analysis.riskLevels[j].profitTrades = 1
          /\ analysis.riskLevels[j].lossTrades = 1
          /\ analysis.riskLevels[j].profitFactor > 0
          /\ analysis.riskLevels[j].avgLoss > 0
          /\ analysis.riskLevels[j].winRate = 500
    /\ \E j \in 1..Len(analysis.riskLevels) :
          /\ analysis.riskLevels[j].profitTrades > 0
          /\ analysis.riskLevels[j].lossTrades = 0
          /\ analysis.riskLevels[j].profitFactor = 0

\* C24: at most one backend fetch is outstanding for a cache key, whatever
\* the interleaving of getKlines, extendTimeRange, refresh ticks and
\* clearCache, and inflightRequests holds a record for a key exactly while
\* a fetch of that key is outstanding.
C24_SingleFlight ==
    /\ \A f \in fetches : \A g \in fetches : f.key = g.key => f = g
    /\ {r.key : r \in inflightRequests} = {f.key : f \in fetches}

\* the fetch fid is outstanding / inflightRequests holds its record
Outstanding(fid) == \E f \in fetches : f.fid = fid

Recorded(fid) == \E r \in inflightRequests : r.fid = fid

\* C25: a fetch that is outstanding settles, and from the step in which it
\* settles, with an answer or with an error, inflightRequests holds no
\* record of it: every record is the record of an outstanding fetch, and
\* the map is empty when no fetch is outstanding.  A failure is not
\* remembered: a getKlines call that follows the failed fetch of its key,
\* and whose range no cache entry contains, issues a new backend call.
C25_RecordRemoved ==
    /\ [](\A r \in inflightRequests : Outstanding(r.fid))
    /\ [](fetches = {} => inflightRequests = {})
    /\ \A fid \in 1..MaxFetches :
          Outstanding(fid) ~> (~Outstanding(fid) /\ ~Recorded(fid))
    /\ [][(/\ lastOp.op = "fetchFail"
           /\ lastOp'.op = "getKlines"
           /\ lastOp'.series = lastOp.series
           /\ lastOp'.startTime = lastOp.startTime
           /\ lastOp'.endTime = lastOp.endTime
           /\ ~FindCachedData(cache, lastOp.series, lastOp.startTime,
                              lastOp.endTime).found)
          => (/\ lastOp'.path = "fetch"
              /\ nFetch' = nFetch + 1
              /\ \E f \in fetches' :
                    /\ f.fid = nFetch'
                    /\ f.key = GenerateCacheKey(lastOp.series,
                                                lastOp.startTime,
                                                lastOp.endTime))]_vars

\* a getKlines call has issued a new fetch right after the fetch of its
\* key failed
C25_Witness ==
    /\ lastOp.op = "getKlines"
    /\ lastOp.path = "fetch"
    /\ nFail = 1
    /\ nFetch = 2
    /\ cache = <<>>
    /\ \A f \in fetches :
          f.key = GenerateCacheKey(lastOp.series, lastOp.startTime,
                                   lastOp.endTime)
    /\ Cardinality(fetches) = 1
    /\ nAdmin = 0

\* C26: a getKlines call served by containment returns the bars of the
\* entry it was served from whose open time t has start <= t <= end, both
\* bounds included, in the order of the entry; when that entry holds the
\* backend's bars of its declared range, this is what a fresh backend call
\* for [start, end] would answer.
C26_HitReturnsRange ==
    [][(lastOp'.op = "getKlines" /\ lastOp'.path = "hit")
       => \E i \in 1..Len(cache) :
             /\ lastOp'.used = {cache[i]}
             /\ lastOp'.data =
                  SelectSeq(cache[i].data,
                            LAMBDA t : /\ DateParse(lastOp'.startTime) <= t
                                       /\ t <= DateParse(lastOp'.endTime))
             /\ (cache[i].data = BackendBars(lastOp'.series,
                                             cache[i].startTime,
                                             cache[i].endTime))
                => lastOp'.data = BackendBars(lastOp'.series,
                                              lastOp'.startTime,
                                              lastOp'.endTime)]_vars

\* a hit on a strictly larger entry that holds the backend's bars of its
\* range: the bars at both bounds of the request are returned, a bar of
\* the entry outside the request is not
C26_Witness ==
    /\ lastOp.op = "getKlines" /\ lastOp.path = "hit"
    /\ \E e \in lastOp.used :
          /\ e.data = BackendBars(lastOp.series, e.startTime, e.endTime)
          /\ Len(lastOp.data) < Len(e.data)
    /\ lastOp.data # <<>>
    /\ lastOp.data[1] = DateParse(lastOp.startTime)
    /\ lastOp.data[Len(lastOp.data)] = DateParse(lastOp.endTime)

\* the elements of a sequence
Elements(s) == {s[i] : i \in 1..Len(s)}

\* the step has stored, for the call that answered d, one entry under the
\* key of (series, newStartTime, newEndTime) with that range, whose bars
\* are those of existing and of fetched, ascending, one for an open time,
\* and d carries the bars of it in [newStartTime, newEndTime]
MergedStored(d, series, newStartTime, newEndTime, existing, fetched) ==
    LET at == {i \in 1..Len(cache') :
                 cache'[i].key = GenerateCacheKey(series, newStartTime,
                                                  newEndTime)}
    IN /\ Cardinality(at) = 1
       /\ \A i \in at :
             /\ cache'[i].startTime = newStartTime
             /\ cache'[i].endTime = newEndTime
             /\ Elements(cache'[i].data)
                  = Elements(existing) \cup Elements(fetched)
             /\ \A a \in 1..Len(cache'[i].data) :
                   \A b \in 1..Len(cache'[i].data) :
                       a < b => cache'[i].data[a] < cache'[i].data[b]
             /\ d.data =
                  SelectSeq(cache'[i].data,
                            LAMBDA t : /\ Le(DateParse(newStartTime), t)
                                       /\ Le(t, DateParse(newEndTime)))

\* the bars Promise.all gives a call that ends in this step: those its
\* segments already hold and, for a segment that awaited the fetch that
\* settles in this step, the answer of that fetch
SegmentBars(call) ==
    FlatSeq([k \in 1..Len(call.segs) |->
               IF call.segs[k].fid = 0 THEN call.segs[k].data
               ELSE lastOp'.data])

C28_SortedUnique ==
    \A i \in 1..Len(cache) :
        \A a \in 1..Len(cache[i].data) :
            \A b \in 1..Len(cache[i].data) :
                a < b => cache[i].data[a] < cache[i].data[b]

\* extendTimeRange for 01:30-02:00 has merged the entry of 01:00-01:30,
\* which holds the bars up to 02:00, with the segment fetched from
\* 01:30:00.001 on: the bars they share are held once
C28_Witness ==
    /\ lastOp.op = "fetchOk"
    /\ lastOp.data # <<>>
    /\ Elements(lastOp.data) \subseteq Elements(MergedEntry.data)
    /\ \E d \in lastOp.delivered :
          /\ d.to = "extendTimeRange" /\ d.status = "ok" /\ d.id # 0
    /\ \E i \in 1..Len(cache) :
          /\ cache[i].key = GenerateCacheKey(SeriesOf("1m"),
                                             ToISOString(P1),
                                             ToISOString(P2))
          /\ cache[i].data = MergedEntry.data

\* C29 (I2): every bar of a cache entry has its open time inside the
\* declared [startTime, endTime] of the entry, in every reachable state.
C29_BarsInRange ==
    \A i \in 1..Len(cache) :
        \A a \in 1..Len(cache[i].data) :
            /\ Le(DateParse(cache[i].startTime), cache[i].data[a])
            /\ Le(cache[i].data[a], DateParse(cache[i].endTime))

\* the TTL of the claim for an interval
SweepTtl(interval) == IF interval = "1m" THEN 5 * MINUTE ELSE 30 * MINUTE

\* the positions of the described map whose age does not exceed the TTL
Unexpired == {i \in 1..Len(held) : held[i].age <= SweepTtl(held[i].interval)}

\* C30: when cleanExpiredCache has run, the map holds no entry whose age
\* exceeds the TTL of its interval (5 minutes for "1m", 30 minutes for the
\* others), however many entries it held, and the entries whose age does
\* not exceed it are all there, unchanged and in their order; the map holds
\* no entry older than its TTL after a tick of the cleanup timer either.
C30_TtlSweep ==
    /\ lastOp.op = "cleanExpiredCache" =>
          /\ Len(cache) = Cardinality(Unexpired)
          /\ \A i \in Unexpired :
                cache[Cardinality({k \in Unexpired : k <= i})]
                  = HeldEntry(held[i], i)
    /\ lastOp.op \in {"cleanExpiredCache", "cleanupTick"} =>
          \A i \in 1..Len(cache) :
              now - cache[i].cachedAt <= SweepTtl(cache[i].key[4])

\* cleanExpiredCache has run on three entries, more than the limit: the one
\* older than its TTL is gone, the one exactly as old as its TTL and the
\* younger one are still there
C30_Witness ==
    /\ lastOp.op = "cleanExpiredCache"
    /\ Len(held) = 3
    /\ evicted.at = {2}
    /\ held[1].age = SweepTtl(held[1].interval)
    /\ held[2].age > SweepTtl(held[2].interval)
    /\ held[3].age < SweepTtl(held[3].interval)
    /\ Len(cache) = 2

\* the positions S of the described map, in their order
RECURSIVE InOrder(_)
InOrder(S) ==
    IF S = {} THEN <<>>
    ELSE LET i == CHOOSE x \in S : \A y \in S : x <= y
         IN <<i>> \o InOrder(S \ {i})

\* C31: limitCacheSize never over-evicts.  It changes nothing when the map
\* holds at most MAX_CACHE_ENTRIES entries; otherwise it deletes exactly
\* (count - MAX_CACHE_ENTRIES) entries, none of a lower priority score than
\* an entry it keeps, and leaves the others unchanged and in their order;
\* the count afterwards is the minimum of the count before and the limit.
C31_NeverOverEvicts ==
    evicted.done =>
        LET count == Len(held)
        IN /\ count <= MAX_CACHE_ENTRIES =>
                 /\ evicted.at = {}
                 /\ evicted.left = InOrder(1..count)
           /\ count > MAX_CACHE_ENTRIES =>
                 /\ Cardinality(evicted.at) = count - MAX_CACHE_ENTRIES
                 /\ \A i \in evicted.at : \A j \in (1..count) \ evicted.at :
                       HeldScore(held[i]) >= HeldScore(held[j])
           /\ Len(evicted.left) = (IF count <= MAX_CACHE_ENTRIES THEN count
                                   ELSE MAX_CACHE_ENTRIES)
           /\ evicted.left = InOrder((1..count) \ evicted.at)

\* limitCacheSize has run on three entries with room for fewer: it has
\* deleted the first, and the second is now the first of the map
C31_Witness ==
    /\ evicted.done
    /\ Len(held) = 3
    /\ Len(held) > MAX_CACHE_ENTRIES
    /\ 1 \in evicted.at /\ 2 \notin evicted.at
    /\ Len(evicted.left) = MAX_CACHE_ENTRIES
    /\ evicted.left[1] = 2

\* the number of bars in the entries at the positions s of the described map
RECURSIVE BarsAt(_)
BarsAt(s) ==
    IF s = <<>> THEN 0 ELSE held[Head(s)].bars + BarsAt(Tail(s))

\* C32: when the estimated memory (total bars * 200 bytes) of the map
\* checkMemoryUsage finds exceeds 100 MB, it evicts down to at most
\* floor(0.7 * MAX_CACHE_ENTRIES) entries and sweeps the expired ones, and
\* the entry limit is back at its configured value on return; when the
\* estimate is at most 100 MB the map and the limit are unchanged.
C32_MemoryBound ==
    evicted.done =>
        /\ evicted.limit = MAX_CACHE_ENTRIES
        /\ BarsAt(evicted.found) * BYTES_PER_POINT
              > MEMORY_LIMIT_MB * 1024 * 1024 =>
              /\ Len(evicted.left) <= (MAX_CACHE_ENTRIES * 7) \div 10
              /\ \A j \in 1..Len(evicted.left) :
                    /\ evicted.left[j] # 0
                    /\ ~HeldExpired(held[evicted.left[j]])
        /\ BarsAt(evicted.found) * BYTES_PER_POINT
              <= MEMORY_LIMIT_MB * 1024 * 1024 =>
              evicted.left = evicted.found

\* the extendTimeRange calls of refresh runs that are in progress
RefreshCalls == {c \in extCalls : c.rid # 0}

\* the failure of the fetch f ends the batch of the refresh run r, which has
\* entries left to refresh
BatchFails(f, r) ==
    /\ r.queue # <<>>
    /\ \E c \in extCalls : c.rid = r.rid
    /\ \A c \in extCalls :
          c.rid = r.rid => \E i \in 1..Len(c.segs) : c.segs[i].fid = f.fid

\* at most MAX_CONCURRENT_REFRESH extendTimeRange calls of refresh runs are
\* in progress
RefreshBounded == Cardinality(RefreshCalls) <= MAX_CONCURRENT_REFRESH

\* a refresh run whose batch a failed fetch has ended goes on to its next
\* entry in the same step
RefreshGoesOn ==
    \A f \in fetches : \A r \in runs :
        (lastOp'.op = "fetchFail" /\ f \notin fetches' /\ BatchFails(f, r))
        => \E k \in 1..Len(lastOp'.invoked) :
              /\ lastOp'.invoked[k].rid = r.rid
              /\ lastOp'.invoked[k].series = Head(r.queue).series
              /\ lastOp'.invoked[k].newStartTime = Head(r.queue).startTime

Backwards(s, t) ==
    /\ Len(s) = Len(t)
    /\ \A i \in 1..Len(t) : s[i] = t[Len(t) + 1 - i]

\* what a call has returned in the order asked for, asc being what the
\* same call returns with order "asc"
InOrderAsked(order, returned, asc) ==
    IF order = "desc" THEN Backwards(returned, asc) ELSE returned = asc

\* the order a delivery of getKlines was asked for
OrderOf(d) == IF "order" \in DOMAIN d THEN d.order ELSE "asc"

\* C34: getKlines with order "desc" returns exactly the reverse of what the
\* same call returns with order "asc", on a cache hit, as a deduplicated
\* waiter and on a fresh fetch; no call in either order changes the bars or
\* their order inside a cache entry: a call leaves the cache as it is, and
\* when a fetch settles every entry is an entry that was there or the entry
\* stored for the fetch, with the bars in the ascending order of the
\* backend whatever order the callers asked for.
C34_OrderPreserved ==
    [][/\ lastOp'.op = "getKlines" =>
             /\ cache' = cache
             /\ lastOp'.path = "hit" =>
                   InOrderAsked(lastOp'.order, lastOp'.data,
                                FindCachedData(cache, lastOp'.series,
                                               lastOp'.startTime,
                                               lastOp'.endTime).data)
       /\ lastOp'.op = "fetchOk" =>
             /\ \A d \in lastOp'.delivered :
                   (d.to = "getKlines" /\ d.status = "ok")
                   => InOrderAsked(OrderOf(d), d.data,
                                   BackendBars(lastOp'.series,
                                               lastOp'.startTime,
                                               lastOp'.endTime))
             /\ \A i \in 1..Len(cache') :
                   \/ \E j \in 1..Len(cache) : cache'[i] = cache[j]
                   \/ /\ cache'[i].key =
                            GenerateCacheKey(lastOp'.series, lastOp'.startTime,
                                             lastOp'.endTime)
                      /\ cache'[i].data =
                            BackendBars(lastOp'.series, lastOp'.startTime,
                                        lastOp'.endTime)
       /\ lastOp'.op = "fetchFail" =>
             \A i \in 1..Len(cache') : \E j \in 1..Len(cache) :
                 cache'[i] = cache[j]]_vars

\* a fetch of several bars has settled for a caller that asked for "asc"
\* and one that asked for "desc" (the call that issued it and one that
\* joined it): the two have got the bars in opposite orders
C34_Witness ==
    /\ lastOp.op = "fetchOk"
    /\ Len(lastOp.data) > 1
    /\ \E a \in lastOp.delivered : \E d \in lastOp.delivered :
          /\ a.to = "getKlines" /\ OrderOf(a) = "asc" /\ a.status = "ok"
          /\ d.to = "getKlines" /\ OrderOf(d) = "desc" /\ d.status = "ok"
          /\ a.data[1] < a.data[Len(a.data)]
          /\ d.data[1] > d.data[Len(d.data)]

\* the price or quantity v is zero or not a finite number
ZeroOrNotFinite(v) == v = 0 \/ v = NaN \/ v = Infinity

\* the rounds of the query the claim takes as invalid
InvalidIds ==
    {allTrades[i].roundId : i \in
       {i \in 1..Len(allTrades) :
          \/ ZeroOrNotFinite(allTrades[i].avgEntryPrice)
          \/ ZeroOrNotFinite(allTrades[i].avgExitPrice)
          \/ ZeroOrNotFinite(allTrades[i].totalQuantity)}}

\* C35: rounds with a non-finite or zero entry price, exit price or
\* quantity are skipped at every level: they add nothing to totalTrades, to
\* any amount or to any detail list, and the other rounds are aggregated
\* all the same.
C35_InvalidSkipped ==
    analysis.done =>
        /\ ~analysis.error
        /\ \A l \in 1..Len(analysis.riskLevels) :
              LET level == analysis.riskLevels[l]
              IN /\ level.totalTrades = Len(allTrades) - Cardinality(InvalidIds)
                 /\ \A d \in Details(level) : d.roundId \notin InvalidIds
                 /\ Len(allTrades) = Cardinality(InvalidIds) =>
                       /\ level.profitTrades = 0 /\ level.lossTrades = 0
                       /\ level.totalProfit = 0
                       /\ level.totalProfitAmount = 0
                       /\ level.totalLossAmount = 0

\* the first and the second open fill of a round
FirstFill(t) == SortByTimestamp(t.opens.data)[1]
SecondFill(t) == SortByTimestamp(t.opens.data)[2]

\* the level has stopped the round t early: it holds a detail of t that is
\* stopped at the price of the first fill
StoppedEarly(level, t) ==
    \E d \in Details(level) :
        /\ d.roundId = t.roundId
        /\ d.wouldHitStopLoss
        /\ d.entryPrice = FirstFill(t).price * 1000
        /\ d.quantity = FirstFill(t).quantity

\* the bar k reaches the stop price of the first fill of t at level p
ReachesFirstStop(t, k, p) ==
    IF t.positionSide = "LONG"
    THEN k.low * 1000 <= FirstFill(t).price * (1000 + p)
    ELSE k.high * 1000 >= FirstFill(t).price * (1000 - p)

\* C36 (as stated): the early-stop scan of a multi-leg round considers only
\* bars whose open and close times lie strictly between the first and the
\* second fill timestamps: a bar whose openTime equals the first fill's
\* timestamp or whose closeTime equals the second fill's timestamp cannot
\* trigger the early stop.
C36_StrictlyBetween ==
    analysis.done =>
        \A l \in 1..Len(stopLossLevels) : \A n \in 1..Len(allTrades) :
            LET t == allTrades[n]
            IN (FillsKnown(t) /\ StoppedEarly(analysis.riskLevels[l], t))
               => \E i \in 1..Len(BarsOf(t)) :
                     /\ BarsOf(t)[i].openTime.v > FirstFill(t).timestamp.v
                     /\ BarsOf(t)[i].closeTime.v < SecondFill(t).timestamp.v
                     /\ ReachesFirstStop(t, BarsOf(t)[i], stopLossLevels[l])

\* C36 (amended): the early-stop scan of a multi-leg round considers
\* exactly the bars whose openTime is at or after the first fill's
\* timestamp and whose closeTime is at or before the second fill's: the
\* round is stopped early at a level exactly when such a bar reaches the
\* stop price of the first fill, a bar that opens with the first fill or
\* closes with the second included, a bar that opens before the first fill
\* or closes after the second excluded.
C36_BetweenInclusive ==
    analysis.done =>
        \A l \in 1..Len(stopLossLevels) : \A n \in 1..Len(allTrades) :
            LET t == allTrades[n]
            IN FillsKnown(t) =>
                 (StoppedEarly(analysis.riskLevels[l], t)
                  <=> \E i \in 1..Len(BarsOf(t)) :
                        /\ BarsOf(t)[i].openTime.v >= FirstFill(t).timestamp.v
                        /\ BarsOf(t)[i].closeTime.v
                             <= SecondFill(t).timestamp.v
                        /\ ReachesFirstStop(t, BarsOf(t)[i],
                                            stopLossLevels[l]))

\* a round whose only bar opens at the timestamp of its first fill has been
\* stopped early at a level
C36_Witness ==
    /\ analysis.done
    /\ Len(allTrades) = 1
    /\ FillsKnown(allTrades[1])
    /\ Len(BarsOf(allTrades[1])) = 1
    /\ BarsOf(allTrades[1])[1].openTime.v
         = FirstFill(allTrades[1]).timestamp.v
    /\ \E l \in 1..Len(analysis.riskLevels) :
          StoppedEarly(analysis.riskLevels[l], allTrades[1])

\* the details of a list
ListedIn(list) == {list[i] : i \in 1..Len(list)}

\* the stopped details of a level result
StoppedDetails(level) == {d \in Details(level) : d.wouldHitStopLoss}

\* C37: a stopped trade always realises the level as its loss.  Whenever a
\* detail has wouldHitStopLoss = true at a level p < 0, its pnlRate is p
\* and its pnlAmount is p / 100 * the entry price used * the quantity
\* used, which is negative; the detail is listed among the loss trades,
\* which lossTrades counts, and no detail of its round is listed among the
\* profit trades.  This holds for long and short rounds, on the single
\* path and on the early stop.
C37_StoppedLosesLevel ==
    (analysis.done /\ ~analysis.error)
      => \A l \in 1..Len(stopLossLevels) :
            LET p == stopLossLevels[l]
                level == analysis.riskLevels[l]
            IN \A d \in StoppedDetails(level) :
                  /\ d.pnlRate.den > 0
                  /\ d.pnlRate.num * 10 = p * d.pnlRate.den
                  /\ d.pnlAmount * 1000 = p * d.entryPrice * d.quantity
                  /\ d.pnlAmount < 0
                  /\ d \in ListedIn(level.lossTradeDetails)
                  /\ level.lossTrades
                       >= Cardinality(StoppedDetails(level))
                  /\ \A g \in ListedIn(level.profitTradeDetails) :
                        g.roundId # d.roundId

\* a level lists a stopped long round, a stopped short round, a round
\* stopped on the single path and one stopped early, and one of the
\* stopped rounds made a profit in reality
C37_Witness ==
    /\ analysis.done
    /\ ~analysis.error
    /\ \E l \in 2..Len(stopLossLevels) :
          LET S == StoppedDetails(analysis.riskLevels[l])
          IN /\ \E d \in S : d.positionSide = "LONG"
             /\ \E d \in S : d.positionSide = "SHORT"
             /\ \E d \in S :
                   d.entryPrice = allTrades[TradeOf(d)].avgEntryPrice * 1000
             /\ \E d \in S :
                   d.entryPrice # allTrades[TradeOf(d)].avgEntryPrice * 1000
             /\ \E d \in S : d.originalPnlAmount > 0

\* the sum of the pnl amounts of a list of details
RECURSIVE SumPnl(_)
SumPnl(list) ==
    IF list = <<>> THEN 0 ELSE Head(list).pnlAmount + SumPnl(Tail(list))

\* how often the round n is listed in a list of details
Listings(list, n) ==
    Cardinality({i \in 1..Len(list) : list[i].roundId = allTrades[n].roundId})

\* the counted rounds a level result lists neither as a profit nor as a
\* loss: those whose pnl amount is 0
ZeroRounds(level) ==
    {n \in 1..Len(allTrades) :
        /\ Counted(allTrades[n])
        /\ Listings(level.profitTradeDetails, n) = 0
        /\ Listings(level.lossTradeDetails, n) = 0}

AccountingIdentity(level) ==
    /\ level.profitTrades + level.lossTrades <= level.totalTrades
    /\ level.totalTrades - (level.profitTrades + level.lossTrades)
         = Cardinality(ZeroRounds(level))
    /\ Len(level.profitTradeDetails) = level.profitTrades
    /\ Len(level.lossTradeDetails) = level.lossTrades
    /\ \A n \in 1..Len(allTrades) :
          Listings(level.profitTradeDetails, n)
            + Listings(level.lossTradeDetails, n) <= 1
    /\ level.totalProfitAmount = ToFixed2(SumPnl(level.profitTradeDetails))
    /\ level.totalLossAmount = ToFixed2(-SumPnl(level.lossTradeDetails))
    /\ level.totalProfit
         = ToFixed2(SumPnl(level.profitTradeDetails)
                    + SumPnl(level.lossTradeDetails))

\* C38 (as stated): accounting identity of every level result, of the
\* dialog and of the worker.  profitTrades + lossTrades <= totalTrades,
\* and the difference is exactly the number of counted rounds whose pnl
\* amount is 0; the profit and the loss detail lists have exactly
\* profitTrades and lossTrades elements and each counted round is in at
\* most one of them; the net profit is the profit amount minus the loss
\* amount before rounding.
C38_AccountingIdentity ==
    /\ (analysis.done /\ ~analysis.error)
         => \A l \in 1..Len(analysis.riskLevels) :
               AccountingIdentity(analysis.riskLevels[l])
    /\ posted.done => AccountingIdentity(posted.result)

\* the last call was clearCache or destroy
JustCleared == lastOp.op \in {"clearCache", "destroy"}

\* right after clearCache and destroy both maps are empty
ClearedEmpty == JustCleared => (cache = <<>> /\ inflightRequests = {})

\* the step after clearCache or destroy leaves the cache empty: a fetch
\* started after the call cannot have completed yet, so an entry stored by
\* this step comes from a fetch that was outstanding at the call
ClearedStaysEmpty == JustCleared => cache' = <<>>

\* an in-flight record is not removed while its own fetch is outstanding,
\* unless by clearCache or destroy
RecordUndisturbed ==
    \A r \in inflightRequests :
        (\E f \in fetches' : f.fid = r.fid)
          => \/ r \in inflightRequests'
             \/ lastOp'.op \in {"clearCache", "destroy"}

\* C39 (as stated): after clearCache() and after destroy() the cache and
\* the in-flight map are empty and stay free of any entry derived from a
\* fetch that was started before the call: when a fetch that was
\* outstanding at the call completes, it neither stores an entry in the
\* cache nor removes the in-flight record of a later request.
C39_ClearIsFinal ==
    /\ []ClearedEmpty
    /\ [][ClearedStaysEmpty /\ RecordUndisturbed]_vars

\* the round t has no early-stop data: its first two open fills are not
\* known, or no bar lies between them
NoEarlyData(t) ==
    ~ /\ FillsKnown(t)
      /\ \E i \in 1..Len(BarsOf(t)) :
            /\ BarsOf(t)[i].openTime.v >= FirstFill(t).timestamp.v
            /\ BarsOf(t)[i].closeTime.v <= SecondFill(t).timestamp.v

\* the details a level result lists for the round t
DetailsOf(level, t) == {d \in Details(level) : d.roundId = t.roundId}

\* what the claim compares of a detail
Outcome(d) == <<d.wouldHitStopLoss, d.finalPrice, d.pnlAmount>>

\* the level the worker is given for the level l of the dialog: the same
\* percentage, 0 for the sentinel
WorkerLevel(l) ==
    IF stopLossLevels[l] = NO_STOP THEN 0 ELSE stopLossLevels[l]

\* C40 (as stated): for a level p < 0 and a counted round with a
\* non-empty bar path and no early-stop data, the chronological
\* first-crossing scan of the worker (computeForLevel) yields the same
\* wouldHitStopLoss, finalPrice and pnlAmount as the rule of the dialog,
\* which compares the excursion rate of the minimum low / maximum high
\* with p; for the no-stop level (percentage 0 in the worker, -999 in the
\* dialog) both yield the real exit.
C40_WorkerMatchesDialog ==
    (analysis.done /\ ~analysis.error /\ posted.done)
      => \A l \in 1..Len(stopLossLevels) : \A n \in 1..Len(allTrades) :
            LET t == allTrades[n]
                D == DetailsOf(analysis.riskLevels[l], t)
                W == DetailsOf(posted.result, t)
            IN (/\ posted.result.percentage = WorkerLevel(l)
                /\ Counted(t)
                /\ BarsOf(t) # <<>>
                /\ NoEarlyData(t))
                 => /\ D # {}
                    /\ W # {}
                    /\ \A d \in D : \A w \in W : Outcome(d) = Outcome(w)
                    /\ WorkerLevel(l) = 0
                         => \A d \in D \cup W :
                               /\ ~d.wouldHitStopLoss
                               /\ d.finalPrice = t.avgExitPrice * 1000

====
